---- MODULE Spec2Model ----
(***************************************************************************)
(* A model of the overlay-aware export pipeline of the cuddles video       *)
(* editor: the streaming (MediaRecorder) exporter, the timeline layout,    *)
(* the overlay store of the editor and the FFmpeg filter-graph synthesis.  *)
(*                                                                         *)
(* Times are integers (whole seconds).  Comparisons against the half       *)
(* second of the timeline resize guard are made exact by doubling.         *)
(***************************************************************************)
EXTENDS Integers, Sequences, FiniteSets, TLC

VARIABLES
    \* ---- MediaRecorderExporter (src/src/utils/webcodecsExporter.js) ----
    overlays,        \* this.overlays: the layer list handed to the constructor
    startTime,       \* this.startTime (exporter) / startTime state (editor)
    endTime,         \* this.endTime, 0 standing for null / endTime state (editor)
    pc,              \* where export()/processVideoFrames is suspended
    recState,        \* mediaRecorder: "none" (not created), "recording", "inactive"
    onstopSet,       \* mediaRecorder.onstop has been assigned
    stopPending,     \* the recorder's dataavailable+stop events are queued
    watchdog,        \* the setTimeout of line 280: "unset", "armed", "fired"
    aborted,         \* abortController.signal.aborted
    recordedChunks,  \* this.recordedChunks.length
    result,          \* the promise of export(): "pending", "resolved", "rejected"
    cause,           \* the message of the rejection
    vtime,           \* video.currentTime of the exporter's video element
    paused,          \* video.paused
    rafPending,      \* a requestAnimationFrame(renderFrame) callback is scheduled
    tickWait,        \* position in tickAct where renderFrame awaits loadImage, 0 if none
    tickAct,         \* activeOverlays of the last renderFrame (indices into overlays)
    lastDrawn,       \* overlays drawn by the last renderFrame, in drawing order
    lastTick,        \* video.currentTime read by the last renderFrame, -1 if none
    cached,          \* overlay index -> its _cachedImage is set
    preloadIdx,      \* next image overlay to preload
    frameCount,      \* frameCount of processVideoFrames (saturating at MaxFrames)
    badStop,         \* mediaRecorder.stop() was called on a recorder not recording
    stopHandled,     \* the onstop handler has run
    \* ---- VideoEditor (src/src/components/VideoEditor.jsx) ----
    textLayers,      \* the overlay store: the layers in insertion order
    selectedTextId,  \* the selected layer's id, NoId if none
    videoFile,       \* the uploaded file (0: none)
    videoDuration,   \* videoDuration state (0 until the metadata is loaded)
    currentTime,     \* currentTime state: the playback position last reported
    clock,           \* what Date.now() returns
    loaded,          \* loaded state: the export button may start a transcode
    isLoading,       \* isLoading state: load() of the FFmpeg core is in flight
    graph,           \* what the last transcode() synthesized, NoGraph if none
    job,             \* the transcode() call in flight or last finished, NoJob if none
    \* ---- TextTimeline (src/src/components/TextTimeline.jsx) ----
    draggingId,      \* draggingId state
    resizingId,      \* resizingId state
    resizeEdge,      \* resizeEdge state: "start", "end" or "none"
    \* ---- pure functions: the inputs drawn and the value returned ----
    arg,
    out

\* The exporter's own state; startTime and endTime are the trim range, which
\* the exporter receives and the editor edits.
exporterVars == <<overlays, pc, recState, onstopSet, stopPending,
                  watchdog, aborted, recordedChunks, result, cause, vtime, paused,
                  rafPending, tickWait, tickAct, lastDrawn, lastTick, cached,
                  preloadIdx, frameCount, badStop, stopHandled>>

trimVars == <<startTime, endTime>>

editorVars == <<textLayers, selectedTextId, videoFile, videoDuration, currentTime,
                clock, loaded, isLoading, graph, job, draggingId, resizingId, resizeEdge>>

fnVars == <<arg, out>>

\* What the steps of the exporter leave alone.
outsideStream == <<editorVars, fnVars>>

vars == <<exporterVars, trimVars, editorVars, fnVars>>

(***************************************************************************)
(* Bounds of the model.                                                    *)
(***************************************************************************)
VideoDur == 3        \* video.duration of the exported file, in seconds
MaxOverlays == 2     \* layers handed to one streaming export
MaxFrames == 2       \* frameCount saturates here

Max(a, b) == IF a >= b THEN a ELSE b
Min(a, b) == IF a <= b THEN a ELSE b

SeqsUpTo(S, n) == UNION {[1..k -> S] : k \in 0..n}

(***************************************************************************)
(* Layers.  A layer carries its id, its type ("text" or "image") and its   *)
(* timing {start, end} in source-video time.                               *)
(***************************************************************************)
MkLayer(id, type, s, e) ==
    [id |-> id, type |-> type, timing |-> [start |-> s, end |-> e]]

\* Ids come from Date.now(): a string for a text layer, a number for a drawing.
\* NoId stands for null.
StringId(n) == [kind |-> "string", v |-> n]
NumberId(n) == [kind |-> "number", v |-> n]
NoId == [kind |-> "null", v |-> 0]

NoGraph == [stages |-> <<>>, started |-> FALSE]

\* No transcode() has been called: nothing in the engine's file system, and
\* no message set by an export.  run numbers the calls, writer is the call
\* whose exec wrote the output.mp4 now in the file system (0 when there is
\* none), readFrom the writer of the file that readFile returned, and other
\* the position of a second call in flight at the same time.
NoJob ==
    [pc |-> "none", textLayers |-> <<>>, startTime |-> 0, endTime |-> 0,
     i |-> 0, read |-> <<>>, stages |-> <<>>, atCall |-> <<>>,
     outputFile |-> FALSE, execRejected |-> FALSE,
     message |-> "none", downloaded |-> FALSE,
     run |-> 1, writer |-> 0, readFrom |-> 0, other |-> "none"]

\* No pure function has been applied.
NoCall == [fn |-> "none"]

\* The timings the streaming model draws its overlays from.
StreamTimings == {<<0, VideoDur>>, <<1, 2>>}

StreamOverlaySets ==
    {[i \in 1..Len(q) |-> MkLayer(i, q[i][1], q[i][2][1], q[i][2][2])] :
        q \in SeqsUpTo({"text", "image"} \X StreamTimings, MaxOverlays)}

(***************************************************************************)
(* MediaRecorderExporter                                                   *)
(***************************************************************************)

\* const duration = this.endTime || videoInfo.duration
Duration == IF endTime # 0 THEN endTime ELSE VideoDur

\* const exportDuration = duration - this.startTime
ExportDuration == Duration - startTime

\* this.overlays.filter(o => o.type === 'image' && o.src), as indices
ImageOverlays == SelectSeq([i \in 1..Len(overlays) |-> i],
                           LAMBDA i : overlays[i].type = "image")

\* The predicate of the activeOverlays filter of renderFrame.
TickActive(o, relativeTime) ==
    LET start == Max(0, o.timing.start - startTime)
        end == o.timing.end - startTime
    IN relativeTime >= start /\ relativeTime <= end

\* The active overlays with the last of the list first.
ActiveLastFirst(t) ==
    LET act == SelectSeq([i \in 1..Len(overlays) |-> i],
                         LAMBDA i : TickActive(overlays[i], t - startTime))
    IN [k \in 1..Len(act) |-> act[Len(act) + 1 - k]]

\* const activeOverlays = this.overlays.filter(...), as indices in list order
\* (t is currentTime = video.currentTime)
ActiveOverlays(t) ==
    SelectSeq([i \in 1..Len(overlays) |-> i],
              LAMBDA i : TickActive(overlays[i], t - startTime))

\* The loop "for (const overlay of activeOverlays) await this.drawOverlay(..)"
\* from position k on: the overlays it draws before it has to wait for
\* loadImage of an image that is not cached (wait = that position, 0 if the
\* loop runs to its end).
RECURSIVE DrawFrom(_, _, _)
DrawFrom(act, k, isCached) ==
    IF k > Len(act) THEN [drawn |-> <<>>, wait |-> 0]
    ELSE IF overlays[act[k]].type = "image" /\ ~isCached[act[k]]
         THEN [drawn |-> <<>>, wait |-> k]
         ELSE LET rest == DrawFrom(act, k + 1, isCached)
              IN [drawn |-> <<act[k]>> \o rest.drawn, wait |-> rest.wait]

\* The end-of-range test of renderFrame.
ReachedEnd(t) ==
    \/ t - startTime >= ExportDuration
    \/ t >= Duration

\* mediaRecorder.stop(): a recording recorder becomes inactive and queues its
\* dataavailable and stop events; on a recorder that is not recording the call
\* has no effect on its state (it returns or throws InvalidStateError).
StopRecorder ==
    IF recState = "recording"
    THEN recState' = "inactive" /\ stopPending' = TRUE /\ UNCHANGED badStop
    ELSE badStop' = TRUE /\ UNCHANGED <<recState, stopPending>>

\* onstop without its test of recordedChunks.length.
OnStopNoCheck(chunks) == "resolved"

\* The outcome of mediaRecorder.onstop for a number of recorded chunks.
OnStopOutcome(chunks) ==
    IF chunks = 0 THEN "rejected" ELSE "resolved"

\* The editor with nothing in it and no pure function under test.
EditorIdle ==
    /\ textLayers = <<>>
    /\ selectedTextId = NoId
    /\ videoFile = 0
    /\ videoDuration = 0
    /\ currentTime = 0
    /\ clock = 1
    /\ loaded = FALSE
    /\ isLoading = FALSE
    /\ graph = NoGraph
    /\ job = NoJob
    /\ draggingId = NoId
    /\ resizingId = NoId
    /\ resizeEdge = "none"

FnIdle == arg = NoCall /\ out = NoCall

\* An exporter whose export() has not been called.
RecorderIdle ==
    /\ pc = "idle"
    /\ recState = "none"
    /\ onstopSet = FALSE
    /\ stopPending = FALSE
    /\ watchdog = "unset"
    /\ aborted = FALSE
    /\ recordedChunks = 0
    /\ result = "pending"
    /\ cause = "none"
    /\ vtime = 0
    /\ paused = TRUE
    /\ rafPending = FALSE
    /\ tickWait = 0
    /\ tickAct = <<>>
    /\ lastDrawn = <<>>
    /\ lastTick = -1
    /\ preloadIdx = 1
    /\ frameCount = 0
    /\ badStop = FALSE
    /\ stopHandled = FALSE

\* No exporter has been constructed.
ExporterIdle ==
    /\ overlays = <<>>
    /\ cached = <<>>
    /\ RecorderIdle

InitStream ==
    /\ overlays \in StreamOverlaySets
    /\ startTime \in 0..1
    /\ endTime \in {0} \cup 2..VideoDur
    /\ cached = [i \in 1..Len(overlays) |-> FALSE]
    /\ RecorderIdle
    /\ EditorIdle
    /\ FnIdle

\* export() is called: it awaits getVideoInfo().
Start ==
    /\ pc = "idle"
    /\ pc' = "info"
    /\ UNCHANGED <<overlays, startTime, endTime, recState, onstopSet, stopPending,
                   watchdog, aborted, recordedChunks, result, cause, vtime, paused,
                   rafPending, tickWait, tickAct, lastDrawn, lastTick, cached,
                   preloadIdx, frameCount, badStop, stopHandled>>
    /\ UNCHANGED outsideStream

\* getVideoInfo: loadedmetadata fires; processVideoFrames creates its own
\* video element and awaits its loadedmetadata.
InfoLoaded ==
    /\ pc = "info"
    /\ pc' = "load"
    /\ UNCHANGED <<overlays, startTime, endTime, recState, onstopSet, stopPending,
                   watchdog, aborted, recordedChunks, result, cause, vtime, paused,
                   rafPending, tickWait, tickAct, lastDrawn, lastTick, cached,
                   preloadIdx, frameCount, badStop, stopHandled>>
    /\ UNCHANGED outsideStream

\* The source video fails to load (video.onerror = reject) in getVideoInfo or
\* in processVideoFrames: export() rethrows.
VideoError ==
    /\ pc \in {"info", "load"}
    /\ pc' = "failed"
    /\ result' = "rejected"
    /\ cause' = "video error"
    /\ UNCHANGED <<overlays, startTime, endTime, recState, onstopSet, stopPending,
                   watchdog, aborted, recordedChunks, vtime, paused,
                   rafPending, tickWait, tickAct, lastDrawn, lastTick, cached,
                   preloadIdx, frameCount, badStop, stopHandled>>
    /\ UNCHANGED outsideStream

\* processVideoFrames after loadedmetadata: the recorder is created and
\* started, then seekToTime(this.startTime) is awaited.
RecorderStart ==
    /\ pc = "load"
    /\ pc' = "seeking"
    /\ recState' = "recording"
    /\ recordedChunks' = 0
    /\ UNCHANGED <<overlays, startTime, endTime, onstopSet, stopPending,
                   watchdog, aborted, result, cause, vtime, paused,
                   rafPending, tickWait, tickAct, lastDrawn, lastTick, cached,
                   preloadIdx, frameCount, badStop, stopHandled>>
    /\ UNCHANGED outsideStream

\* After the image overlays are preloaded, video.play() is awaited.
AfterPreload(idx) == IF idx > Len(ImageOverlays) THEN "playing" ELSE "preload"

\* The seeked event: video.currentTime is this.startTime; the preload loop begins.
Seeked ==
    /\ pc = "seeking"
    /\ vtime' = startTime
    /\ pc' = AfterPreload(1)
    /\ preloadIdx' = 1
    /\ UNCHANGED <<overlays, startTime, endTime, recState, onstopSet, stopPending,
                   watchdog, aborted, recordedChunks, result, cause, paused,
                   rafPending, tickWait, tickAct, lastDrawn, lastTick, cached,
                   frameCount, badStop, stopHandled>>
    /\ UNCHANGED outsideStream

\* overlay._cachedImage = await this.loadImage(overlay.src) succeeds (ok) or
\* rejects and is caught (the overlay stays without a cached image).
PreloadImage(ok) ==
    /\ pc = "preload"
    /\ cached' = [cached EXCEPT ![ImageOverlays[preloadIdx]] = ok]
    /\ preloadIdx' = preloadIdx + 1
    /\ pc' = AfterPreload(preloadIdx + 1)
    /\ UNCHANGED <<overlays, startTime, endTime, recState, onstopSet, stopPending,
                   watchdog, aborted, recordedChunks, result, cause, vtime, paused,
                   rafPending, tickWait, tickAct, lastDrawn, lastTick,
                   frameCount, badStop, stopHandled>>
    /\ UNCHANGED outsideStream

PreloadOk == PreloadImage(TRUE)
PreloadFails == PreloadImage(FALSE)

\* One call of renderFrame up to the point where it returns or suspends.
RenderFrame ==
    IF aborted \/ ReachedEnd(vtime)
    THEN /\ StopRecorder
         /\ rafPending' = FALSE
         /\ UNCHANGED <<tickWait, tickAct, lastDrawn, lastTick, frameCount>>
    ELSE LET act == ActiveOverlays(vtime)
             res == DrawFrom(act, 1, cached)
         IN /\ tickAct' = act
            /\ lastTick' = vtime
            /\ lastDrawn' = res.drawn
            /\ tickWait' = res.wait
            /\ rafPending' = (res.wait = 0)
            /\ frameCount' = IF res.wait = 0 /\ frameCount < MaxFrames
                             THEN frameCount + 1 ELSE frameCount
            /\ UNCHANGED <<recState, stopPending, badStop>>

\* await video.play() resolves: renderFrame() is called, then onstop is
\* assigned and the watchdog timer is armed, all before the next task.
PlayResolved ==
    /\ pc = "playing"
    /\ pc' = "waiting"
    /\ paused' = FALSE
    /\ RenderFrame
    /\ onstopSet' = TRUE
    /\ watchdog' = "armed"
    /\ UNCHANGED <<overlays, startTime, endTime, aborted, recordedChunks, result,
                   cause, vtime, cached, preloadIdx, stopHandled>>
    /\ UNCHANGED outsideStream

\* await video.play() rejects: processVideoFrames throws, export() rethrows.
PlayRejected ==
    /\ pc = "playing"
    /\ pc' = "failed"
    /\ result' = "rejected"
    /\ cause' = "play rejected"
    /\ UNCHANGED <<overlays, startTime, endTime, recState, onstopSet, stopPending,
                   watchdog, aborted, recordedChunks, vtime, paused,
                   rafPending, tickWait, tickAct, lastDrawn, lastTick, cached,
                   preloadIdx, frameCount, badStop, stopHandled>>
    /\ UNCHANGED outsideStream

\* The display calls the scheduled renderFrame.
RafTick ==
    /\ rafPending
    /\ RenderFrame
    /\ UNCHANGED <<overlays, startTime, endTime, pc, onstopSet, watchdog, aborted,
                   recordedChunks, result, cause, vtime, paused, cached, preloadIdx,
                   stopHandled>>
    /\ UNCHANGED outsideStream

\* Inside drawOverlay, await this.loadImage(src) of an image that was not
\* cached resolves: the image is cached and drawn and the loop goes on.
TickImageLoaded ==
    /\ tickWait # 0
    /\ LET i == tickAct[tickWait]
           nowCached == [cached EXCEPT ![i] = TRUE]
           res == DrawFrom(tickAct, tickWait, nowCached)
       IN /\ cached' = nowCached
          /\ lastDrawn' = lastDrawn \o res.drawn
          /\ tickWait' = res.wait
          /\ rafPending' = (res.wait = 0)
          /\ frameCount' = IF res.wait = 0 /\ frameCount < MaxFrames
                           THEN frameCount + 1 ELSE frameCount
    /\ UNCHANGED <<overlays, startTime, endTime, pc, recState, onstopSet,
                   stopPending, watchdog, aborted, recordedChunks, result, cause,
                   vtime, paused, tickAct, lastTick, preloadIdx, badStop, stopHandled>>
    /\ UNCHANGED outsideStream

\* ... or rejects: renderFrame's promise rejects and no next tick is scheduled.
TickImageFails ==
    /\ tickWait # 0
    /\ tickWait' = 0
    /\ rafPending' = FALSE
    /\ UNCHANGED <<overlays, startTime, endTime, pc, recState, onstopSet,
                   stopPending, watchdog, aborted, recordedChunks, result, cause,
                   vtime, paused, tickAct, lastDrawn, lastTick, cached, preloadIdx,
                   frameCount, badStop, stopHandled>>
    /\ UNCHANGED outsideStream

\* Playback advances the source video by one second.
TimeAdvance ==
    /\ ~paused
    /\ vtime < VideoDur
    /\ vtime' = vtime + 1
    /\ UNCHANGED <<overlays, startTime, endTime, pc, recState, onstopSet,
                   stopPending, watchdog, aborted, recordedChunks, result, cause,
                   paused, rafPending, tickWait, tickAct, lastDrawn, lastTick,
                   cached, preloadIdx, frameCount, badStop, stopHandled>>
    /\ UNCHANGED outsideStream

\* The recorder's queued events are dispatched: dataavailable (its data has
\* size > 0 or not) and then stop, whose handler, if assigned, settles the job.
DispatchStop(hasData) ==
    /\ stopPending
    /\ stopPending' = FALSE
    /\ stopHandled' = (stopHandled \/ onstopSet)
    /\ LET chunks == IF hasData THEN recordedChunks + 1 ELSE recordedChunks
       IN /\ recordedChunks' = chunks
          /\ IF onstopSet
             THEN /\ paused' = TRUE
                  /\ result' = OnStopOutcome(chunks)
                  /\ cause' = IF OnStopOutcome(chunks) = "rejected"
                              THEN "No data was recorded" ELSE cause
             ELSE UNCHANGED <<paused, result, cause>>
    /\ UNCHANGED <<overlays, startTime, endTime, pc, recState, onstopSet,
                   watchdog, aborted, vtime, rafPending, tickWait, tickAct,
                   lastDrawn, lastTick, cached, preloadIdx, frameCount, badStop>>
    /\ UNCHANGED outsideStream

DispatchStopData == DispatchStop(TRUE)
DispatchStopEmpty == DispatchStop(FALSE)

\* The timeout of (exportDuration + 2) s fires.
WatchdogFires ==
    /\ watchdog = "armed"
    /\ watchdog' = "fired"
    /\ IF recState = "recording"
       THEN recState' = "inactive" /\ stopPending' = TRUE
       ELSE UNCHANGED <<recState, stopPending>>
    /\ UNCHANGED <<overlays, startTime, endTime, pc, onstopSet, aborted,
                   recordedChunks, result, cause, vtime, paused, rafPending,
                   tickWait, tickAct, lastDrawn, lastTick, cached, preloadIdx,
                   frameCount, badStop, stopHandled>>
    /\ UNCHANGED outsideStream

\* abort()
Abort ==
    /\ pc # "idle"
    /\ aborted' = TRUE
    /\ IF recState = "recording"
       THEN recState' = "inactive" /\ stopPending' = TRUE
       ELSE UNCHANGED <<recState, stopPending>>
    /\ UNCHANGED <<overlays, startTime, endTime, pc, onstopSet, watchdog,
                   recordedChunks, result, cause, vtime, paused, rafPending,
                   tickWait, tickAct, lastDrawn, lastTick, cached, preloadIdx,
                   frameCount, badStop, stopHandled>>
    /\ UNCHANGED outsideStream

NextStream ==
    \/ Start \/ InfoLoaded \/ VideoError \/ RecorderStart \/ Seeked
    \/ PreloadOk \/ PreloadFails \/ PlayResolved \/ PlayRejected
    \/ RafTick \/ TickImageLoaded \/ TickImageFails \/ TimeAdvance
    \/ DispatchStopData \/ DispatchStopEmpty \/ WatchdogFires \/ Abort

SpecStream == InitStream /\ [][NextStream]_vars

\* What the browser's scheduling guarantees: a loading resource ends in load
\* or error, queued events are dispatched, timers fire and scheduled animation
\* frames are called.  Nothing makes playback of the source progress: the
\* seek may never complete, play() may never settle, time may not advance.
SchedulingFairness ==
    /\ WF_vars(InfoLoaded \/ VideoError \/ RecorderStart)
    /\ WF_vars(PreloadOk \/ PreloadFails)
    /\ WF_vars(RafTick)
    /\ WF_vars(TickImageLoaded \/ TickImageFails)
    /\ WF_vars(DispatchStopData \/ DispatchStopEmpty)
    /\ WF_vars(WatchdogFires)

\* Playback that never stalls.
PlaybackFairness ==
    /\ WF_vars(Seeked)
    /\ WF_vars(PlayResolved \/ PlayRejected)
    /\ WF_vars(TimeAdvance)

FairStream == SpecStream /\ SchedulingFairness
FairPlayStream == SpecStream /\ SchedulingFairness /\ PlaybackFairness

(***************************************************************************)
(* Claims about the streaming backend                                      *)
(***************************************************************************)
Settled == result # "pending"

\* C1: once export() has been started the job eventually settles, whatever
\* playback does (seek never completing, play never starting, time standing
\* still): the watchdog stops the recorder regardless.  (Runs that are aborted
\* are left to C3.)
C1_WatchdogSettles == (pc # "idle") ~> (Settled \/ aborted)

\* C2: once abort() has been called the promise of export() does not resolve
\* with a Blob of the chunks recorded so far.
C2_AbortDiscards == [][(aborted /\ ~Settled) => (result' # "resolved")]_vars

\* C3: an abort() issued at any point of an export is honoured: the job
\* eventually settles with the recorder stopped and the source paused.
C3_AbortHonoured ==
    aborted ~> (Settled /\ recState # "recording" /\ paused)

MaxLayers == 2       \* the store holds at most this many layers
MaxClock == 2        \* Date.now() returns 1..MaxClock
MaxDrift == 2        \* a bar is followed down to timing.start = -MaxDrift

DefaultTextEnd == 5  \* end: videoDuration || 5
DrawingLength == 3   \* end: Math.min(currentTime + 3, videoDuration)

\* The files a user can upload, and video.duration of each in seconds.
Files == {1, 2}
FileDuration(f) == IF f = 1 THEN 3 ELSE 2

\* What the steps of the editor leave alone.
outsideEditor == <<exporterVars, fnVars>>

\* { ...layer, ...updates }
Merge(layer, updates) ==
    [f \in DOMAIN layer \cup DOMAIN updates |->
        IF f \in DOMAIN updates THEN updates[f] ELSE layer[f]]

\* A map that merges the patch into every layer, whatever its id.
UpdateEvery(layers, id, updates) ==
    [i \in 1..Len(layers) |-> Merge(layers[i], updates)]

\* layers.map(layer => layer.id === id ? { ...layer, ...updates } : layer)
UpdateText(layers, id, updates) ==
    [i \in 1..Len(layers) |->
        IF layers[i].id = id THEN Merge(layers[i], updates) ELSE layers[i]]

\* layers.filter(layer => layer.id !== id)
RemoveText(layers, id) == SelectSeq(layers, LAMBDA l : l.id # id)

\* textLayers.find(l => l.id === id), as a position: the first one, 0 if none
FindLayer(layers, id) ==
    IF \E i \in 1..Len(layers) : layers[i].id = id
    THEN CHOOSE i \in 1..Len(layers) :
            /\ layers[i].id = id
            /\ \A j \in 1..(i - 1) : layers[j].id # id
    ELSE 0

\* The workspace with the timeline bars is rendered.
TimelineShown == videoFile # 0 /\ videoDuration > 0

\* handleAddText (a text layer has no type field; "text" stands for that)
HandleAddText ==
    /\ Len(textLayers) < MaxLayers
    /\ LET newText == MkLayer(StringId(clock), "text", 0,
                              IF videoDuration # 0 THEN videoDuration
                              ELSE DefaultTextEnd)
       IN /\ textLayers' = Append(textLayers, newText)
          /\ selectedTextId' = newText.id
    /\ UNCHANGED <<videoFile, videoDuration, currentTime, clock, loaded, isLoading,
                   graph, job, draggingId, resizingId, resizeEdge>>
    /\ UNCHANGED <<trimVars, outsideEditor>>

\* handleSaveDrawing, called by the drawing canvas of the workspace
HandleSaveDrawing ==
    /\ videoFile # 0
    /\ Len(textLayers) < MaxLayers
    /\ LET newLayer == MkLayer(NumberId(clock), "image", currentTime,
                               Min(currentTime + DrawingLength, videoDuration))
       IN /\ textLayers' = Append(textLayers, newLayer)
          /\ selectedTextId' = newLayer.id
    /\ UNCHANGED <<videoFile, videoDuration, currentTime, clock, loaded, isLoading,
                   graph, job, draggingId, resizingId, resizeEdge>>
    /\ UNCHANGED <<trimVars, outsideEditor>>

\* handleRemoveText(id)
HandleRemoveText(id) ==
    /\ textLayers' = RemoveText(textLayers, id)
    /\ selectedTextId' = IF selectedTextId = id THEN NoId ELSE selectedTextId
    /\ UNCHANGED <<videoFile, videoDuration, currentTime, clock, loaded, isLoading,
                   graph, job, draggingId, resizingId, resizeEdge>>
    /\ UNCHANGED <<trimVars, outsideEditor>>

\* Delete or Backspace: if (selectedTextId) handleRemoveText(selectedTextId)
DeleteKey ==
    /\ selectedTextId # NoId
    /\ HandleRemoveText(selectedTextId)

\* A file is chosen (App.handleUpload): the effect on videoFile resets the trim
\* range and the duration; the timeline is unmounted until the metadata loads.
Upload(f) ==
    /\ videoFile' = f
    /\ startTime' = 0
    /\ endTime' = 0
    /\ videoDuration' = 0
    /\ draggingId' = NoId
    /\ resizingId' = NoId
    /\ resizeEdge' = "none"
    /\ UNCHANGED <<textLayers, selectedTextId, currentTime, clock, loaded,
                   isLoading, graph, job>>
    /\ UNCHANGED outsideEditor

UploadFile == \E f \in Files : Upload(f)

\* App.handleCloseVideo: the effect on videoFile takes its else branch.
CloseVideo ==
    /\ videoFile # 0
    /\ videoFile' = 0
    /\ loaded' = FALSE
    /\ draggingId' = NoId
    /\ resizingId' = NoId
    /\ resizeEdge' = "none"
    /\ UNCHANGED <<textLayers, selectedTextId, videoDuration, currentTime, clock,
                   isLoading, graph, job>>
    /\ UNCHANGED <<trimVars, outsideEditor>>

\* handleLoadedMetadata
HandleLoadedMetadata ==
    /\ videoFile # 0
    /\ videoDuration = 0
    /\ videoDuration' = FileDuration(videoFile)
    /\ startTime' = 0
    /\ endTime' = FileDuration(videoFile)
    /\ loaded' = TRUE
    /\ UNCHANGED <<textLayers, selectedTextId, videoFile, currentTime, clock,
                   isLoading, graph, job, draggingId, resizingId, resizeEdge>>
    /\ UNCHANGED outsideEditor

\* setCurrentTime(t) with the position of the video element: by updateProgress
\* while playing, by handleTimeUpdate while paused, by handleTimelineClick.
ReportTime(t) ==
    /\ videoFile # 0
    /\ currentTime # t
    /\ currentTime' = t
    /\ UNCHANGED <<textLayers, selectedTextId, videoFile, videoDuration, clock,
                   loaded, isLoading, graph, job, draggingId, resizingId, resizeEdge>>
    /\ UNCHANGED <<trimVars, outsideEditor>>

PlaybackPosition == \E t \in 0..videoDuration : ReportTime(t)

\* load() of the FFmpeg core, started when the editor mounts, completes ...
FfmpegLoaded ==
    /\ isLoading
    /\ isLoading' = FALSE
    /\ loaded' = TRUE
    /\ UNCHANGED <<textLayers, selectedTextId, videoFile, videoDuration, currentTime,
                   clock, graph, job, draggingId, resizingId, resizeEdge>>
    /\ UNCHANGED <<trimVars, outsideEditor>>

\* ... or fails.
FfmpegLoadFails ==
    /\ isLoading
    /\ isLoading' = FALSE
    /\ UNCHANGED <<textLayers, selectedTextId, videoFile, videoDuration, currentTime,
                   clock, loaded, graph, job, draggingId, resizingId, resizeEdge>>
    /\ UNCHANGED <<trimVars, outsideEditor>>

\* Time passes: Date.now() returns a later value.
ClockTick ==
    /\ clock < MaxClock
    /\ clock' = clock + 1
    /\ UNCHANGED <<textLayers, selectedTextId, videoFile, videoDuration, currentTime,
                   loaded, isLoading, graph, job, draggingId, resizingId, resizeEdge>>
    /\ UNCHANGED <<trimVars, outsideEditor>>

(***************************************************************************)
(* TextTimeline: dragging and resizing the bars                            *)
(***************************************************************************)

\* No mouse button is held on the timeline.
MouseIsUp == draggingId = NoId /\ resizingId = NoId

\* handleMouseDown(e, id) on the bar of a layer
HandleMouseDown(id) ==
    /\ TimelineShown
    /\ MouseIsUp
    /\ FindLayer(textLayers, id) # 0
    /\ draggingId' = id
    /\ selectedTextId' = id
    /\ UNCHANGED <<textLayers, videoFile, videoDuration, currentTime, clock, loaded,
                   isLoading, graph, job, resizingId, resizeEdge>>
    /\ UNCHANGED <<trimVars, outsideEditor>>

\* handleResizeStart(e, id, edge) on a handle of the selected bar
HandleResizeStart(id, edge) ==
    /\ TimelineShown
    /\ MouseIsUp
    /\ FindLayer(textLayers, id) # 0
    /\ selectedTextId = id
    /\ resizingId' = id
    /\ resizeEdge' = edge
    /\ selectedTextId' = id
    /\ UNCHANGED <<textLayers, videoFile, videoDuration, currentTime, clock, loaded,
                   isLoading, graph, job, draggingId>>
    /\ UNCHANGED <<trimVars, outsideEditor>>

\* The branch of handleMouseMove for a dragged bar.  x2 is twice the time
\* getTimeFromX returns, so that newTime - duration / 2 is (x2 - duration) / 2.
DragTiming(layer, x2) ==
    LET duration == layer.timing.end - layer.timing.start
        newStart0 == (x2 - duration) \div 2
        newStart1 == IF newStart0 < 0 THEN 0 ELSE newStart0
        newStart == IF newStart1 + duration > videoDuration
                    THEN videoDuration - duration ELSE newStart1
    IN [start |-> newStart, end |-> newStart + duration]

\* The branch of handleMouseMove for a resized bar: the updates it passes to
\* onUpdate, or no update when its guard fails.  newTime < end - 0.5 is
\* x2 < 2 * end - 1 and newTime > start + 0.5 is x2 > 2 * start + 1.
ResizeUpdates(layer, edge, x2) ==
    LET newTime == x2 \div 2
    IN IF edge = "start"
       THEN IF x2 < 2 * layer.timing.end - 1 /\ newTime >= 0
            THEN {[timing |-> [layer.timing EXCEPT !.start = newTime]]}
            ELSE {}
       ELSE IF x2 > 2 * layer.timing.start + 1 /\ newTime <= videoDuration
            THEN {[timing |-> [layer.timing EXCEPT !.end = newTime]]}
            ELSE {}

\* Repeated drags can push a bar further and further left of the track: the
\* model follows them down to -MaxDrift.
WithinDrift(layers) == \A i \in 1..Len(layers) : layers[i].timing.start >= -MaxDrift

\* handleMouseMove with the mouse over time x2 / 2 of the track.  The model
\* keeps times whole: a position is taken only if the timing it yields is.
HandleMouseMove(x2) ==
    /\ ~MouseIsUp
    /\ IF draggingId # NoId
       THEN LET i == FindLayer(textLayers, draggingId)
            IN IF i = 0 THEN UNCHANGED textLayers
               ELSE /\ (x2 - (textLayers[i].timing.end - textLayers[i].timing.start)) % 2 = 0
                    /\ textLayers' = UpdateText(textLayers, draggingId,
                                        [timing |-> DragTiming(textLayers[i], x2)])
       ELSE LET i == FindLayer(textLayers, resizingId)
            IN IF i = 0 THEN UNCHANGED textLayers
               ELSE /\ x2 % 2 = 0
                    /\ LET ups == ResizeUpdates(textLayers[i], resizeEdge, x2)
                       IN IF ups = {} THEN UNCHANGED textLayers
                          ELSE \E u \in ups :
                                  textLayers' = UpdateText(textLayers, resizingId, u)
    /\ WithinDrift(textLayers')
    /\ UNCHANGED <<selectedTextId, videoFile, videoDuration, currentTime, clock,
                   loaded, isLoading, graph, job, draggingId, resizingId, resizeEdge>>
    /\ UNCHANGED <<trimVars, outsideEditor>>

\* handleMouseUp
HandleMouseUp ==
    /\ ~MouseIsUp
    /\ draggingId' = NoId
    /\ resizingId' = NoId
    /\ resizeEdge' = "none"
    /\ UNCHANGED <<textLayers, selectedTextId, videoFile, videoDuration, currentTime,
                   clock, loaded, isLoading, graph, job>>
    /\ UNCHANGED <<trimVars, outsideEditor>>

\* The ids of the layers in the store.
LayerIds == {textLayers[i].id : i \in 1..Len(textLayers)}

MouseDownOnBar == \E id \in LayerIds : HandleMouseDown(id)
MouseDownOnHandle == \E id \in LayerIds, edge \in {"start", "end"} :
                        HandleResizeStart(id, edge)
MouseMove == \E x2 \in 0..(2 * videoDuration) : HandleMouseMove(x2)

InitEditor ==
    /\ textLayers = <<>>
    /\ selectedTextId = NoId
    /\ videoFile = 0
    /\ videoDuration = 0
    /\ currentTime = 0
    /\ clock = 1
    /\ loaded = FALSE
    /\ isLoading = FALSE
    /\ graph = NoGraph
    /\ job = NoJob
    /\ draggingId = NoId
    /\ resizingId = NoId
    /\ resizeEdge = "none"
    /\ startTime = 0
    /\ endTime = 0
    /\ ExporterIdle
    /\ FnIdle

NextEditor ==
    \/ HandleAddText \/ HandleSaveDrawing \/ DeleteKey
    \/ UploadFile \/ CloseVideo \/ HandleLoadedMetadata \/ PlaybackPosition
    \/ ClockTick
    \/ MouseDownOnBar \/ MouseDownOnHandle \/ MouseMove \/ HandleMouseUp

SpecEditor == InitEditor /\ [][NextEditor]_vars

(***************************************************************************)
(* VideoEditor.transcode: the synthesis of the FFmpeg filter graph         *)
(***************************************************************************)
MaxGraphLayers == 2  \* layers in the store of an editor that exports

Fps == 30            \* const fps = 30
LoopBuffer == 10     \* ... + 10

\* handleSliderChange([v0, v1]): the range slider has min 0, max
\* videoDuration and allowCross false, so 0 <= v0 <= v1 <= videoDuration.
HandleSliderChange(v0, v1) ==
    /\ TimelineShown
    /\ <<v0, v1>> # <<startTime, endTime>>
    /\ startTime' = v0
    /\ endTime' = v1
    /\ UNCHANGED <<editorVars, outsideEditor>>

SliderChange ==
    \E v0 \in 0..videoDuration : \E v1 \in v0..videoDuration :
        HandleSliderChange(v0, v1)

\* The loop directive without a bound.
InfiniteLoop(duration) == -1

\* const loopCount = Math.ceil(duration * fps) + 10 (the durations of the
\* model are whole seconds, which Math.ceil leaves as they are)
LoopCount(duration) == duration * Fps + LoopBuffer

\* The window of a layer in export time, and the test that skips the layer:
\* if (end <= 0 || start >= duration) continue
Included(layer, trimStart, duration) ==
    LET start == Max(0, layer.timing.start - trimStart)
        end == Min(duration, layer.timing.end - trimStart)
    IN ~(end <= 0 \/ start >= duration)

\* A stage whose overlay filter reads the source video [0:v] whatever the
\* current stream is.
StageOnSource(i, layer, layerIndex, currentStream, duration) ==
    [layer |-> i,
     scaled |-> IF layer.type = "image" THEN "img" ELSE "txt",
     input |-> layerIndex,
     loop |-> LoopCount(duration),
     fps |-> Fps,
     from |-> 0,
     to |-> layerIndex,
     shortest |-> TRUE,
     enable |-> "none"]

\* A stage whose overlay filter lacks shortest=1.
StageUnbounded(i, layer, layerIndex, currentStream, duration) ==
    [layer |-> i,
     scaled |-> IF layer.type = "image" THEN "img" ELSE "txt",
     input |-> layerIndex,
     loop |-> LoopCount(duration),
     fps |-> Fps,
     from |-> currentStream,
     to |-> layerIndex,
     shortest |-> FALSE,
     enable |-> "none"]

\* A stage that reads the input numbered as the layer's position in the store.
StageByPosition(i, layer, layerIndex, currentStream, duration) ==
    [layer |-> i,
     scaled |-> IF layer.type = "image" THEN "img" ELSE "txt",
     input |-> i,
     loop |-> LoopCount(duration),
     fps |-> Fps,
     from |-> currentStream,
     to |-> layerIndex,
     shortest |-> TRUE,
     enable |-> "none"]

\* The two filters pushed for an included layer, as one stage: the still of
\* input [layerIndex:v] is looped loopCount times at fps frames per second and
\* overlaid on currentStream, giving [v<layerIndex>].  The overlay filter
\* carries shortest=1 and no enable expression.  Stream 0 is [0:v].
Stage(i, layer, layerIndex, currentStream, duration) ==
    [layer |-> i,
     scaled |-> IF layer.type = "image" THEN "img" ELSE "txt",
     input |-> layerIndex,
     loop |-> LoopCount(duration),
     fps |-> Fps,
     from |-> currentStream,
     to |-> layerIndex,
     shortest |-> TRUE,
     enable |-> "none"]

\* The loop over textLayers from position i on, with the stages pushed so far.
RECURSIVE BuildStages(_, _, _, _, _)
BuildStages(layers, i, stages, trimStart, duration) ==
    IF i > Len(layers) THEN stages
    ELSE IF ~Included(layers[i], trimStart, duration)
         THEN BuildStages(layers, i + 1, stages, trimStart, duration)
         ELSE LET inputIndex == Len(stages) + 1
                  currentStream == IF stages = <<>> THEN 0
                                   ELSE stages[Len(stages)].to
              IN BuildStages(layers, i + 1,
                     Append(stages, Stage(i, layers[i], inputIndex,
                                          currentStream, duration)),
                     trimStart, duration)

\* What transcode() hands to ffmpeg.exec: -ss startTime, the inputs, -t
\* duration, and either the filter graph with the mapped stream or -c copy.
ExecArgs(stages, trimStart, duration) ==
    [started |-> TRUE,
     ss |-> trimStart,
     t |-> duration,
     stages |-> stages,
     inputs |-> [k \in 1..Len(stages) |-> stages[k].layer],
     map |-> IF stages = <<>> THEN 0 ELSE stages[Len(stages)].to,
     copy |-> (stages = <<>>)]

\* The arguments transcode() builds from a store and a trim range.
SynthGraph(layers, trimStart, trimEnd) ==
    LET duration == trimEnd - trimStart
    IN ExecArgs(BuildStages(layers, 1, <<>>, trimStart, duration), trimStart, duration)

\* transcode()
Transcode ==
    /\ videoFile # 0
    /\ loaded
    /\ graph' = SynthGraph(textLayers, startTime, endTime)
    /\ UNCHANGED <<textLayers, selectedTextId, videoFile, videoDuration, currentTime,
                   clock, loaded, isLoading, job, draggingId, resizingId, resizeEdge>>
    /\ UNCHANGED <<trimVars, outsideEditor>>

\* The stores of the editors that export.
GraphTimings == {<<0, 3>>, <<0, 1>>, <<1, 2>>, <<2, 3>>}

GraphLayerSets ==
    {[i \in 1..Len(q) |->
        MkLayer(IF q[i][1] = "image" THEN NumberId(i) ELSE StringId(i),
                q[i][1], q[i][2][1], q[i][2][2])] :
        q \in SeqsUpTo({"text", "image"} \X GraphTimings, MaxGraphLayers)}

InitGraph ==
    /\ textLayers \in GraphLayerSets
    /\ selectedTextId = NoId
    /\ videoFile = 0
    /\ videoDuration = 0
    /\ currentTime = 0
    /\ clock = 1
    /\ loaded = FALSE
    /\ isLoading = TRUE
    /\ graph = NoGraph
    /\ job = NoJob
    /\ draggingId = NoId
    /\ resizingId = NoId
    /\ resizeEdge = "none"
    /\ startTime = 0
    /\ endTime = 0
    /\ ExporterIdle
    /\ FnIdle

NextGraph ==
    \/ UploadFile \/ CloseVideo \/ HandleLoadedMetadata \/ SliderChange
    \/ FfmpegLoaded \/ FfmpegLoadFails \/ Transcode

SpecGraph == InitGraph /\ [][NextGraph]_vars

\* A stage composites its layer on the frame at export time tau: the looped
\* still has loop + 1 frames at fps frames per second, and with no enable
\* expression the overlay is applied to every frame.
StageShows(stage, tau) == stage.enable = "none" /\ tau * stage.fps <= stage.loop

\* Layer i of the store is composited at export time tau of the output.
CompositedAt(i, tau) ==
    \E k \in 1..Len(graph.stages) :
        graph.stages[k].layer = i /\ StageShows(graph.stages[k], tau)

\* A layer is active at playback time t of the source.
InWindow(o, t) == o.timing.start <= t /\ t <= o.timing.end

\* C5: for every export the editor can start and every layer stage it emits,
\* the loop count is ceil(exportDuration x 30) + 10, a non-negative integer
\* and never -1; exportDuration is the -t argument, trim end minus trim start,
\* and is not negative.
C5_FiniteLoop ==
    graph.started =>
        /\ graph.t >= 0
        /\ \A k \in 1..Len(graph.stages) :
              /\ graph.stages[k].loop = graph.t * 30 + 10
              /\ graph.stages[k].loop \in Nat
              /\ graph.stages[k].loop # -1

\* A trimmed export (trim start 1) that emitted a stage for each of two layers.
C5_Witness ==
    /\ graph.started
    /\ graph.ss = 1
    /\ graph.t >= 1
    /\ Len(graph.stages) = 2

\* C6: in the output of a graph-based export a layer is composited at
\* export-relative time tau (0 <= tau <= exportDuration) if and only if it is
\* active at source time trim start + tau.
C6_GraphMatchesPlayback ==
    graph.started =>
        \A i \in 1..Len(textLayers) : \A tau \in 0..graph.t :
            CompositedAt(i, tau) <=> InWindow(textLayers[i], graph.ss + tau)

(***************************************************************************)
(* The active-layer filter: renderFrame and getActiveOverlays              *)
(***************************************************************************)
MaxActiveOverlays == 2   \* layers handed to one application of the filter
MaxActiveTime == 3       \* timings, trim start and playback time lie in 0..MaxActiveTime

\* getActiveOverlays(overlays, currentTime, startTime) of exportRouter.js, as
\* indices in list order (t is currentTime, trimStart is startTime)
GetActiveOverlays(ovs, t, trimStart) ==
    SelectSeq([i \in 1..Len(ovs) |-> i],
              LAMBDA i : LET adjustedStart == Max(0, ovs[i].timing.start - trimStart)
                             adjustedEnd == ovs[i].timing.end - trimStart
                         IN t >= adjustedStart /\ t <= adjustedEnd)

ActiveTimings == {t \in (0..MaxActiveTime) \X (0..MaxActiveTime) : t[1] <= t[2]}

ActiveInputs ==
    {[i \in 1..Len(q) |-> MkLayer(i, "text", q[i][1], q[i][2])] :
        q \in SeqsUpTo(ActiveTimings, MaxActiveOverlays)}

\* An exporter or compositor with its overlays and trim start, and a playback
\* time of the source at or after the trim start.
InitActive ==
    /\ overlays \in ActiveInputs
    /\ startTime \in 0..MaxActiveTime
    /\ endTime = 0
    /\ arg \in {[fn |-> "active", currentTime |-> t] : t \in 0..MaxActiveTime}
    /\ arg.currentTime >= startTime
    /\ out = NoCall
    /\ cached = [i \in 1..Len(overlays) |-> FALSE]
    /\ RecorderIdle
    /\ EditorIdle

\* The filter of renderFrame is applied at video.currentTime = arg.currentTime.
CallRenderFilter ==
    /\ out = NoCall
    /\ out' = [fn |-> "renderFrame", val |-> ActiveOverlays(arg.currentTime)]
    /\ UNCHANGED <<arg, exporterVars, trimVars, editorVars>>

\* composeFrame / CanvasCompositor.compose apply getActiveOverlays.
CallGetActiveOverlays ==
    /\ out = NoCall
    /\ out' = [fn |-> "getActiveOverlays",
               val |-> GetActiveOverlays(overlays, arg.currentTime, startTime)]
    /\ UNCHANGED <<arg, exporterVars, trimVars, editorVars>>

NextActive == CallRenderFilter \/ CallGetActiveOverlays

SpecActive == InitActive /\ [][NextActive]_vars

\* C7: at a render tick with source playback time t, and in getActiveOverlays,
\* the layers selected for drawing are exactly those with
\* timing.start <= t <= timing.end, whatever the trim start is.
C7_ActiveIffInWindow ==
    out.fn \in {"renderFrame", "getActiveOverlays"} =>
        out.val = SelectSeq([i \in 1..Len(overlays) |-> i],
                            LAMBDA i : InWindow(overlays[i], arg.currentTime))

(***************************************************************************)
(* TextTimeline: the row layout                                            *)
(***************************************************************************)
MaxRowLayers == 3    \* layers handed to one layout
MaxRowTime == 3      \* their timings lie in 0..MaxRowTime

\* The key under which layerRowMap[layer.id] stores a row: a number and the
\* string of its digits are the same property key.
PropertyKey(id) == id.v

\* [...textLayers] as it is.
Unsorted(layers) == layers

\* One step of the stable sort by (a, b) => a.timing.start - b.timing.start:
\* x goes behind every element that does not start after it.
RECURSIVE InsertByStart(_, _)
InsertByStart(sorted, x) ==
    IF sorted = <<>> THEN <<x>>
    ELSE IF Head(sorted).timing.start <= x.timing.start
         THEN <<Head(sorted)>> \o InsertByStart(Tail(sorted), x)
         ELSE <<x>> \o sorted

\* [...textLayers].sort((a, b) => a.timing.start - b.timing.start)
RECURSIVE SortedLayers(_)
SortedLayers(layers) ==
    IF layers = <<>> THEN <<>>
    ELSE InsertByStart(SortedLayers(SubSeq(layers, 1, Len(layers) - 1)),
                       layers[Len(layers)])

\* The body of sortedLayers.forEach: the layer joins the first row whose last
\* layer ends no later than it starts, or opens a new row.
PlaceLayer(rows, layer) ==
    LET fits == {i \in 1..Len(rows) :
                    layer.timing.start >= rows[i][Len(rows[i])].timing.end}
    IN IF fits = {} THEN Append(rows, <<layer>>)
       ELSE LET i == CHOOSE r \in fits : \A q \in fits : r <= q
            IN [rows EXCEPT ![i] = Append(rows[i], layer)]

RECURSIVE PlaceAll(_, _)
PlaceAll(rows, layers) ==
    IF layers = <<>> THEN rows
    ELSE PlaceAll(PlaceLayer(rows, Head(layers)), Tail(layers))

\* rows.forEach((row, index) => row.forEach(layer => layerRowMap[layer.id] = index)):
\* a key written more than once keeps the last index written, the largest.
RowMapOf(rows) ==
    LET keys == UNION {{PropertyKey(rows[i][j].id) : j \in 1..Len(rows[i])} :
                          i \in 1..Len(rows)}
    IN [k \in keys |->
          LET holding == {i \in 1..Len(rows) :
                             \E j \in 1..Len(rows[i]) : PropertyKey(rows[i][j].id) = k}
          IN (CHOOSE i \in holding : \A q \in holding : q <= i) - 1]

\* getLayerRows() for the layers the timeline is given
GetLayerRows(layers) ==
    LET rows == PlaceAll(<<>>, SortedLayers(layers))
    IN [layerRowMap |-> RowMapOf(rows), totalRows |-> Len(rows)]

\* const rowIndex = layerRowMap[layer.id] || 0
RowIndex(layout, layer) ==
    IF PropertyKey(layer.id) \in DOMAIN layout.layerRowMap
    THEN layout.layerRowMap[PropertyKey(layer.id)] ELSE 0

\* The layer lists the layout is applied to: distinct ids, start < end.
RowTimings == {t \in (0..MaxRowTime) \X (0..MaxRowTime) : t[1] < t[2]}

LayoutInputs ==
    {[i \in 1..Len(q) |-> MkLayer(StringId(i), "text", q[i][1], q[i][2])] :
        q \in SeqsUpTo(RowTimings, MaxRowLayers)}

InitLayout ==
    /\ arg \in {[fn |-> "getLayerRows", layers |-> ls] : ls \in LayoutInputs}
    /\ out = NoCall
    /\ startTime = 0
    /\ endTime = 0
    /\ ExporterIdle
    /\ EditorIdle

\* The timeline renders: getLayerRows() is applied to its layers.
CallGetLayerRows ==
    /\ out = NoCall
    /\ out' = [fn |-> "getLayerRows", val |-> GetLayerRows(arg.layers)]
    /\ UNCHANGED <<arg, exporterVars, trimVars, editorVars>>

NextLayout == CallGetLayerRows

SpecLayout == InitLayout /\ [][NextLayout]_vars

\* Two intervals overlap unless one ends no later than the other starts.
Overlap(a, b) ==
    ~(a.timing.end <= b.timing.start \/ b.timing.end <= a.timing.start)

\* The layers can be packed into k rows, no two overlapping ones in a row.
Packable(layers, k) ==
    \E f \in [1..Len(layers) -> 1..k] :
        \A i, j \in 1..Len(layers) :
            (i < j /\ f[i] = f[j]) => ~Overlap(layers[i], layers[j])

MinRows(layers) ==
    CHOOSE k \in 0..Len(layers) :
        /\ Packable(layers, k)
        /\ \A m \in 0..(k - 1) : ~Packable(layers, m)

C9_RowsDisjoint ==
    TimelineShown =>
        LET layout == GetLayerRows(textLayers)
        IN /\ \A i, j \in 1..Len(textLayers) :
                 (i # j /\ RowIndex(layout, textLayers[i]) = RowIndex(layout, textLayers[j]))
                    => ~Overlap(textLayers[i], textLayers[j])
           /\ \A i \in 1..Len(textLayers) :
                 RowIndex(layout, textLayers[i]) \in 0..(layout.totalRows - 1)

\* C10: in every state the editor reaches, every layer of the store satisfies
\* 0 <= timing.start < timing.end.
C10_TimingWellFormed ==
    \A i \in 1..Len(textLayers) :
        /\ 0 <= textLayers[i].timing.start
        /\ textLayers[i].timing.start < textLayers[i].timing.end

\* C11: once the duration of the loaded video is known, timing.start and
\* timing.end of every layer of the store lie in [0, videoDuration], also for
\* layers added while no duration was known or under another video.
C11_TimingInsideVideo ==
    videoDuration > 0 =>
        \A i \in 1..Len(textLayers) :
            /\ 0 <= textLayers[i].timing.start
            /\ textLayers[i].timing.start <= videoDuration
            /\ 0 <= textLayers[i].timing.end
            /\ textLayers[i].timing.end <= videoDuration

\* C12: no two layers of the store share an id.
C12_UniqueIds ==
    \A i, j \in 1..Len(textLayers) :
        i # j => textLayers[i].id # textLayers[j].id

(***************************************************************************)
(* exportRouter.js: the choice of the export method                        *)
(***************************************************************************)
MaxRouterLayers == 2 \* layers in each list handed to the router

\* The interfaces canUseWebCodecs looks for in window.
CodecApis == {"VideoEncoder", "VideoDecoder", "AudioEncoder", "AudioDecoder"}

\* The runtime: no window at all, or a window with some of the interfaces.
NoWindow == [defined |-> FALSE, has |-> {}]
Runtimes == {NoWindow} \cup {[defined |-> TRUE, has |-> h] : h \in SUBSET CodecApis}

\* needsWebCodecs that looks at the text layers only.
NeedsForTextOnly(texts, drawings) == Len(texts) > 0

\* needsWebCodecs that takes every export for one with overlays.
NeedsAlways(texts, drawings) == TRUE

\* canUseWebCodecs() in the runtime w
CanUseWebCodecs(w) ==
    /\ w.defined
    /\ "VideoEncoder" \in w.has
    /\ "VideoDecoder" \in w.has
    /\ "AudioEncoder" \in w.has
    /\ "AudioDecoder" \in w.has

\* needsWebCodecs(textLayers, drawingLayers)
NeedsWebCodecs(texts, drawings) == Len(texts) > 0 \/ Len(drawings) > 0

\* getExportMethod({ textLayers, drawingLayers }) in the runtime w
GetExportMethod(texts, drawings, w) ==
    LET hasOverlays == NeedsWebCodecs(texts, drawings)
        supportsWebCodecs == CanUseWebCodecs(w)
    IN IF hasOverlays
       THEN IF supportsWebCodecs THEN "webcodecs" ELSE "unsupported"
       ELSE "ffmpeg"

RouterTexts ==
    {[i \in 1..n |-> MkLayer(StringId(i), "text", 0, 1)] : n \in 0..MaxRouterLayers}

RouterDrawings ==
    {[i \in 1..n |-> MkLayer(NumberId(i), "image", 0, 1)] : n \in 0..MaxRouterLayers}

InitRouter ==
    /\ arg \in {[fn |-> "getExportMethod", textLayers |-> ts, drawingLayers |-> ds,
                 window |-> w] :
                   ts \in RouterTexts, ds \in RouterDrawings, w \in Runtimes}
    /\ out = NoCall
    /\ startTime = 0
    /\ endTime = 0
    /\ ExporterIdle
    /\ EditorIdle

CallGetExportMethod ==
    /\ out = NoCall
    /\ out' = [fn |-> "getExportMethod",
               val |-> GetExportMethod(arg.textLayers, arg.drawingLayers, arg.window)]
    /\ UNCHANGED <<arg, exporterVars, trimVars, editorVars>>

NextRouter == CallGetExportMethod

SpecRouter == InitRouter /\ [][NextRouter]_vars

\* C13: for an empty layer list the router returns 'ffmpeg' (GraphBased),
\* whatever interfaces the runtime offers.
C13_EmptyIsGraphBased ==
    (out.fn = "getExportMethod" /\ arg.textLayers = <<>> /\ arg.drawingLayers = <<>>)
        => out.val = "ffmpeg"

\* The router applied to an empty list in a runtime with every codec interface.
C13_Witness ==
    /\ out.fn = "getExportMethod"
    /\ arg.textLayers = <<>> /\ arg.drawingLayers = <<>>
    /\ arg.window.has = CodecApis
    /\ out.val = "ffmpeg"

\* C14: for a non-empty layer list (text layers, drawings or both) the router
\* returns 'webcodecs' (Streaming) when the runtime gives frame-codec access
\* and 'unsupported' when it does not, and never 'ffmpeg'.
C14_OverlaysNeedCodecs ==
    (out.fn = "getExportMethod"
        /\ (arg.textLayers # <<>> \/ arg.drawingLayers # <<>>))
        => /\ out.val # "ffmpeg"
           /\ (arg.window.defined /\ arg.window.has = CodecApis) => out.val = "webcodecs"
           /\ ~(arg.window.defined /\ arg.window.has = CodecApis) => out.val = "unsupported"

\* Drawings only, no text layer, in a runtime lacking one interface.
C14_Witness ==
    /\ out.fn = "getExportMethod"
    /\ arg.textLayers = <<>> /\ arg.drawingLayers # <<>>
    /\ arg.window.defined /\ arg.window.has = CodecApis \ {"AudioEncoder"}
    /\ out.val = "unsupported"

\* The text layers and the drawings (type 'image') of a store.
TextsOf(layers) == SelectSeq(layers, LAMBDA l : l.type # "image")
DrawingsOf(layers) == SelectSeq(layers, LAMBDA l : l.type = "image")

\* C15: an export runs the backend the router selects for the layers of the
\* store: when transcode() has handed a job to FFmpeg, 'ffmpeg' is what the
\* router returns for the store in the runtime at hand, so the store is empty.
C15_RouterDispatch ==
    graph.started =>
        \E w \in Runtimes :
            GetExportMethod(TextsOf(textLayers), DrawingsOf(textLayers), w) = "ffmpeg"

\* ---------------------------------------------------------------------------
\* handleUpdateText as a function of the store, the id and the patch
\* (VideoEditor.jsx 93-97), on layers that carry all the fields handleAddText
\* gives them.
\* ---------------------------------------------------------------------------

MaxUpdateLayers == 2

\* A text layer as handleAddText builds it (VideoEditor.jsx 31-52), shown from
\* s to e; fontFamily, textAlign, width and height are left out.
FullLayer(id, s, e) ==
    [id |-> id,
     text |-> "Double Click to Edit",
     style |-> [fontSize |-> 40, color |-> "#ffffff", fontWeight |-> "600"],
     transform |-> [x |-> 100, y |-> 100, rotate |-> 0, scale |-> <<1, 1>>],
     timing |-> [start |-> s, end |-> e]]

UpdateIds == {StringId(1), StringId(2)}

UpdateStores ==
    SeqsUpTo({FullLayer(id, tm[1], tm[2]) : id \in UpdateIds, tm \in {<<0, 3>>, <<1, 2>>}},
             MaxUpdateLayers)

\* The patches the components pass (TextTimeline.jsx 48-53 and 62-72,
\* TextOverlayLayer.jsx 25 and 123-163), the empty patch, and patches whose
\* nested record names only some of its fields.
Patches ==
    << <<>>,
       [timing |-> [start |-> 2, end |-> 3]],
       [transform |-> [x |-> 120, y |-> 80, rotate |-> 0, scale |-> <<1, 1>>]],
       [text |-> "hello"],
       [timing |-> [start |-> 2]],
       [transform |-> [x |-> 120]],
       [style |-> [color |-> "#ff0000"]] >>

InitUpdate ==
    /\ \E ls \in UpdateStores, id \in UpdateIds \cup {StringId(3)}, k \in DOMAIN Patches :
          arg = [fn |-> "handleUpdateText", layers |-> ls, id |-> id,
                 updates |-> Patches[k]]
    /\ out = NoCall
    /\ startTime = 0
    /\ endTime = 0
    /\ ExporterIdle
    /\ EditorIdle

CallHandleUpdateText ==
    /\ out = NoCall
    /\ out' = [fn |-> "handleUpdateText",
               val |-> UpdateText(arg.layers, arg.id, arg.updates)]
    /\ UNCHANGED <<arg, exporterVars, trimVars, editorVars>>

NextUpdate == CallHandleUpdateText

SpecUpdate == InitUpdate /\ [][NextUpdate]_vars

\* C16: update(id, {}) leaves the store, and so the addressed layer, equal to
\* what it was; update(id, {timing}) leaves the transform and every other
\* top-level field of the layer with that id unchanged, and leaves every layer
\* with another id unchanged.
C16_UpdateFrames ==
    out.fn = "handleUpdateText" =>
        /\ Len(out.val) = Len(arg.layers)
        /\ DOMAIN arg.updates = {} => out.val = arg.layers
        /\ DOMAIN arg.updates = {"timing"} =>
              \A i \in 1..Len(arg.layers) :
                  /\ arg.layers[i].id # arg.id => out.val[i] = arg.layers[i]
                  /\ arg.layers[i].id = arg.id =>
                        /\ DOMAIN out.val[i] = DOMAIN arg.layers[i]
                        /\ \A f \in DOMAIN arg.layers[i] \ {"timing"} :
                              out.val[i][f] = arg.layers[i][f]
                        /\ out.val[i].timing = arg.updates.timing

\* A timing patch applied to the first of two layers with different ids.
C16_Witness ==
    /\ out.fn = "handleUpdateText"
    /\ Len(arg.layers) = 2
    /\ arg.layers[1].id = arg.id /\ arg.layers[2].id # arg.id
    /\ DOMAIN arg.updates = {"timing"}
    /\ out.val[1].timing # arg.layers[1].timing
    /\ out.val[1].transform = arg.layers[1].transform
    /\ out.val[2] = arg.layers[2]

\* The fields of the nested record f of a layer that a patch does not name.
Unnamed(layer, updates, f) ==
    IF f \in DOMAIN updates THEN DOMAIN layer[f] \ DOMAIN updates[f] ELSE DOMAIN layer[f]

\* C17: update(id, partial) drops no field that partial does not name: each
\* top-level field of the addressed layer outside partial keeps its value, and
\* so does each field of timing, transform and style that partial does not
\* name.
C17_NestedKept ==
    out.fn = "handleUpdateText" =>
        \A i \in 1..Len(arg.layers) :
            arg.layers[i].id = arg.id =>
                /\ \A f \in DOMAIN arg.layers[i] \ DOMAIN arg.updates :
                      out.val[i][f] = arg.layers[i][f]
                /\ \A f \in {"timing", "transform", "style"} :
                      \A g \in Unnamed(arg.layers[i], arg.updates, f) :
                          /\ g \in DOMAIN out.val[i][f]
                          /\ out.val[i][f][g] = arg.layers[i][f][g]

\* ---------------------------------------------------------------------------
\* Compositing order of the two backends on one list of layers
\* ---------------------------------------------------------------------------

\* Exporters whose lists hold layers that the trim leaves out as well.
OrderTimings == {<<0, 1>>, <<1, 2>>, <<0, VideoDur>>}

OrderOverlaySets ==
    {[i \in 1..Len(q) |-> MkLayer(i, q[i][1], q[i][2][1], q[i][2][2])] :
        q \in SeqsUpTo({"text", "image"} \X OrderTimings, MaxOverlays)}

InitOrder ==
    /\ overlays \in OrderOverlaySets
    /\ startTime \in 0..1
    /\ endTime \in {0} \cup 2..VideoDur
    /\ cached = [i \in 1..Len(overlays) |-> FALSE]
    /\ RecorderIdle
    /\ EditorIdle
    /\ FnIdle

SpecOrder == InitOrder /\ [][NextStream]_vars

\* A sequence of positions of the list that follows the order of the list.
InListOrder(seq) == \A a, b \in 1..Len(seq) : a < b => seq[a] < seq[b]

\* The positions of the layers the filter graph includes, in list order.
IncludedLayers(layers, trimStart, duration) ==
    SelectSeq([i \in 1..Len(layers) |-> i],
              LAMBDA i : Included(layers[i], trimStart, duration))

\* C18: both backends composite in the order of the list (a later layer on
\* top): the overlays drawn on a tick of the streaming exporter, and those
\* composeFrame selects, are in list order, and in the chain transcode() builds
\* for the same list and trim the k-th stage overlays the k-th included layer
\* on the output of the stage before it.
C18_InsertionOrder ==
    /\ InListOrder(lastDrawn)
    /\ InListOrder(GetActiveOverlays(overlays, vtime, startTime))
    /\ LET stages == SynthGraph(overlays, startTime, Duration).stages
           inc == IncludedLayers(overlays, startTime, ExportDuration)
       IN /\ Len(stages) = Len(inc)
          /\ \A k \in 1..Len(stages) :
                /\ stages[k].layer = inc[k]
                /\ stages[k].from = (IF k = 1 THEN 0 ELSE stages[k - 1].to)

\* A tick has drawn both overlays of a list, one after the other.
C18_Witness ==
    /\ Len(overlays) = 2
    /\ lastDrawn = <<1, 2>>
    /\ Len(SynthGraph(overlays, startTime, Duration).stages) = 2

\* ---------------------------------------------------------------------------
\* transcode() step by step (VideoEditor.jsx 426-724), with the store edited
\* while the call is suspended at its awaits
\* ---------------------------------------------------------------------------

\* The textLayers state of the latest render.
LiveLayers == textLayers

\* const layer = textLayers[i] inside transcode(): textLayers is the constant
\* of the render whose transcode was called, not the state of later renders.
ClosureLayers == job.textLayers

\* The loop over textLayers runs from position i without suspending until it
\* reaches an included layer, whose image it then awaits: that position, or
\* Len + 1 when the loop is over.
RECURSIVE NextAwait(_, _, _, _)
NextAwait(layers, i, trimStart, duration) ==
    IF i > Len(layers) THEN i
    ELSE IF Included(layers[i], trimStart, duration) THEN i
         ELSE NextAwait(layers, i + 1, trimStart, duration)

\* The job after the loop has run on from position i: the layers it has read,
\* and where it is suspended.
LoopFrom(j, i, stages) ==
    LET layers == ClosureLayers
        n == NextAwait(layers, i, j.startTime, j.endTime - j.startTime)
        upTo == Min(n, Len(layers))
    IN [j EXCEPT !.pc = IF n <= Len(layers) THEN "layer" ELSE "deleteFile",
                 !.i = n,
                 !.stages = stages,
                 !.read = j.read \o [k \in 1..(upTo - Len(j.read)) |->
                                        layers[Len(j.read) + k]]]

JobLeaves == UNCHANGED <<textLayers, selectedTextId, videoFile, videoDuration,
                         currentTime, clock, loaded, isLoading, draggingId,
                         resizingId, resizeEdge, trimVars, outsideEditor>>

\* transcode() is called (Download or the S key) and suspends at
\* ffmpeg.writeFile(inputName, ...).  One call is followed.
TranscodeCall ==
    /\ videoFile # 0
    /\ loaded
    /\ job.pc = "none"
    /\ job' = [NoJob EXCEPT !.pc = "writeInput",
                            !.textLayers = textLayers,
                            !.startTime = startTime,
                            !.endTime = endTime,
                            !.atCall = textLayers,
                            !.outputFile = job.outputFile,
                            !.message = "Trimming..."]
    /\ UNCHANGED graph
    /\ JobLeaves

\* The input and the font are written; the loop starts.
InputWritten ==
    /\ job.pc = "writeInput"
    /\ job' = LoopFrom(job, 1, <<>>)
    /\ UNCHANGED graph
    /\ JobLeaves

\* The image of layer i is rendered and written: its two filters are pushed and
\* the loop goes on.
LayerWritten ==
    /\ job.pc = "layer"
    /\ LET layer == ClosureLayers[job.i]
           inputIndex == Len(job.stages) + 1
           currentStream == IF job.stages = <<>> THEN 0
                            ELSE job.stages[Len(job.stages)].to
           stage == Stage(job.i, layer, inputIndex, currentStream,
                          job.endTime - job.startTime)
       IN job' = LoopFrom(job, job.i + 1, Append(job.stages, stage))
    /\ UNCHANGED graph
    /\ JobLeaves

\* An awaited writeFile, fetchFile or renderTextToImage rejects: transcode()'s
\* promise rejects, with nothing catching it.
WriteRejects ==
    /\ job.pc \in {"writeInput", "layer"}
    /\ job' = [job EXCEPT !.pc = "threw"]
    /\ UNCHANGED graph
    /\ JobLeaves

\* await ffmpeg.deleteFile(outputName), whether it finds the file or not; then
\* ffmpeg.exec(args) is called.
DeleteFile ==
    /\ job.pc = "deleteFile"
    /\ job' = [job EXCEPT !.pc = "exec", !.outputFile = FALSE, !.writer = 0]
    /\ graph' = ExecArgs(job.stages, job.startTime, job.endTime - job.startTime)
    /\ JobLeaves

\* ffmpeg.exec resolves; the engine has written output.mp4, or has not (it
\* resolves with a non-zero code as well) and the file system is as it was.
ExecResolves ==
    /\ job.pc = "exec"
    /\ \E written \in BOOLEAN :
          job' = [job EXCEPT !.pc = "readFile",
                             !.outputFile = written \/ job.outputFile,
                             !.writer = IF written THEN job.run ELSE job.writer]
    /\ UNCHANGED graph
    /\ JobLeaves

\* ffmpeg.exec rejects, before or after the engine has written (part of)
\* output.mp4; the catch logs a warning.
ExecRejects ==
    /\ job.pc = "exec"
    /\ \E written \in BOOLEAN :
          job' = [job EXCEPT !.pc = "readFile",
                             !.outputFile = written \/ job.outputFile,
                             !.writer = IF written THEN job.run ELSE job.writer,
                             !.execRejected = TRUE]
    /\ UNCHANGED graph
    /\ JobLeaves

\* await ffmpeg.readFile(outputName): the file is downloaded and 'Done!' is
\* shown, or the read fails and the failure message is shown.
ReadFile ==
    /\ job.pc = "readFile"
    /\ job' = IF job.outputFile
              THEN [job EXCEPT !.pc = "done", !.message = "Done!",
                               !.downloaded = TRUE, !.readFrom = job.writer]
              ELSE [job EXCEPT !.pc = "failed",
                               !.message = "Export failed: Could not read output file."]
    /\ UNCHANGED graph
    /\ JobLeaves

\* handleUpdateText(id, updates), as the overlay layer and the timeline call it.
HandleUpdateText(id, updates) ==
    /\ textLayers' = UpdateText(textLayers, id, updates)
    /\ UNCHANGED <<selectedTextId, videoFile, videoDuration, currentTime, clock,
                   loaded, isLoading, graph, job, draggingId, resizingId, resizeEdge>>
    /\ UNCHANGED <<trimVars, outsideEditor>>

\* The patches of the edits made during an export: a new timing, a new place.
EditPatches ==
    {[timing |-> [start |-> 2, end |-> 3]],
     [transform |-> [x |-> 120, y |-> 80]]}

UpdateLayer == \E id \in LayerIds, u \in EditPatches : HandleUpdateText(id, u)

RemoveLayer == \E id \in LayerIds : HandleRemoveText(id)

\* A layer of the store with its place on the frame.
PlacedLayer(id, type, s, e) ==
    [id |-> id, type |-> type, timing |-> [start |-> s, end |-> e],
     transform |-> [x |-> 100, y |-> 100]]

SnapshotTimings == {<<0, 3>>, <<0, 1>>}

SnapshotStores ==
    {[i \in 1..Len(q) |-> PlacedLayer(StringId(i), "text", q[i][1], q[i][2])] :
        q \in SeqsUpTo(SnapshotTimings, MaxLayers)}

\* An editor with a video of three seconds, the engine loaded, a trim range
\* and layers in the store.
InitSnapshot ==
    /\ textLayers \in SnapshotStores
    /\ selectedTextId = NoId
    /\ videoFile = 1
    /\ videoDuration = FileDuration(1)
    /\ currentTime = 0
    /\ clock = 1
    /\ loaded = TRUE
    /\ isLoading = FALSE
    /\ graph = NoGraph
    /\ job = NoJob
    /\ draggingId = NoId
    /\ resizingId = NoId
    /\ resizeEdge = "none"
    /\ startTime \in 0..1
    /\ endTime = FileDuration(1)
    /\ ExporterIdle
    /\ FnIdle

\* The edits of the store and the steps of transcode() up to the call of the
\* engine, which has the whole chain by then.
NextSnapshot ==
    \/ HandleAddText \/ UpdateLayer \/ RemoveLayer
    \/ TranscodeCall \/ InputWritten \/ LayerWritten \/ WriteRejects
    \/ DeleteFile

SpecSnapshot == InitSnapshot /\ [][NextSnapshot]_vars

\* C19: a transcode() in flight works on the store as it was when it was
\* called: whatever is added, updated or removed while it is suspended, the
\* layers it reads are those of that store, with their timing and transform,
\* and the chain it hands to the engine is the chain of that store.
C19_SnapshotAtStart ==
    /\ \A k \in 1..Len(job.read) :
          k <= Len(job.atCall) /\ job.read[k] = job.atCall[k]
    /\ job.pc = "exec" =>
          /\ job.read = job.atCall
          /\ job.stages = BuildStages(job.atCall, 1, <<>>, job.startTime,
                                      job.endTime - job.startTime)
          /\ graph.stages = job.stages

\* The engine runs on a chain of two stages although the store has lost the
\* first of its layers and the other has a new timing and a new place.
C19_Witness ==
    /\ job.pc = "exec"
    /\ Len(job.atCall) = 2
    /\ Len(job.stages) = 2
    /\ Len(textLayers) = 1
    /\ textLayers[1].id = job.atCall[2].id
    /\ textLayers[1].timing # job.atCall[2].timing
    /\ textLayers[1].transform # job.atCall[2].transform
    /\ job.read[2] = job.atCall[2]

\* One transcode() from its call to its last message, the store left alone.
NextExport ==
    \/ TranscodeCall \/ InputWritten \/ LayerWritten \/ WriteRejects
    \/ DeleteFile \/ ExecResolves \/ ExecRejects \/ ReadFile

SpecExport == InitSnapshot /\ [][NextExport]_vars

\* C20: when ffmpeg.exec has rejected, the export is reported as a failure: the
\* message is never 'Done!', no output file goes to the download step, and the
\* finished call ends as failed.
C20_ExecFailureReported ==
    job.execRejected =>
        /\ job.message # "Done!"
        /\ ~job.downloaded
        /\ job.pc \in {"readFile", "failed"}

\* ---------------------------------------------------------------------------
\* Further claims about the streaming backend
\* ---------------------------------------------------------------------------

\* C21: an overlay image that fails to load does not stop the rendering: while
\* the recorder records and the job is not aborted, after play() has resolved a
\* tick is either scheduled or suspended in a load that will let it go on, so
\* the ticks run to the end of the trim range.
C21_AssetFailureTolerated ==
    (pc = "waiting" /\ ~aborted /\ recState = "recording")
        => (rafPending \/ tickWait # 0)

\* C22: the recorder is not in the recording state before the seek to the trim
\* start has completed, and when play() is awaited the source stands at the
\* trim start.
C22_SeekBeforeRecording ==
    /\ recState = "recording" => pc \notin {"idle", "info", "load", "seeking"}
    /\ pc = "playing" => vtime = startTime

\* ---------------------------------------------------------------------------
\* Further claims about the filter graph
\* ---------------------------------------------------------------------------

\* The closed intervals [timing.start, timing.end] and [trimStart, trimEnd]
\* have a point in common.
TrimOverlap(layer, trimStart, trimEnd) ==
    layer.timing.start <= trimEnd /\ trimStart <= layer.timing.end

\* The positions of the layers that have a stage in the graph handed to exec.
StagedLayers == {graph.stages[k].layer : k \in 1..Len(graph.stages)}

\* C23: the graph has a sub-graph (input, loop/scale stage, overlay stage) for
\* a layer if and only if the layer's interval overlaps the trim range; a layer
\* outside the trim range has no input and no stage.
C23_StageIffOverlap ==
    graph.started =>
        /\ \A i \in 1..Len(textLayers) :
              (i \in StagedLayers)
                  <=> TrimOverlap(textLayers[i], graph.ss, graph.ss + graph.t)
        /\ {graph.inputs[k] : k \in 1..Len(graph.inputs)} = StagedLayers

\* C24: the graph handed to exec is a finite linear chain: the first overlay
\* stage reads the source video (stream 0), every later one reads the label the
\* stage before it has produced, the labels grow along the chain, so that each
\* is produced once, read at most once and never by an earlier stage, each
\* loop/scale label feeds the overlay of its own stage, and the mapped stream
\* is the label of the last stage.
C24_LinearChain ==
    graph.started =>
        LET st == graph.stages
        IN /\ \A k \in 1..Len(st) :
                 /\ st[k].from = (IF k = 1 THEN 0 ELSE st[k - 1].to)
                 /\ st[k].from < st[k].to
                 /\ st[k].input = st[k].to
           /\ \A j, k \in 1..Len(st) :
                 j # k => /\ st[j].to # st[k].to
                          /\ st[j].from # st[k].from
                          /\ st[j].input # st[k].input
           /\ st # <<>> => graph.map = st[Len(st)].to
           /\ graph.copy <=> st = <<>>

\* A chain of two stages.
C24_Witness ==
    /\ graph.started
    /\ Len(graph.stages) = 2
    /\ graph.stages[2].from = graph.stages[1].to
    /\ graph.map = graph.stages[2].to

\* ---------------------------------------------------------------------------
\* A layer that covers the trim range, in both backends
\* ---------------------------------------------------------------------------

\* The timing interval of the overlay contains the whole trim range.
Covers(o) == o.timing.start <= startTime /\ Duration <= o.timing.end

\* C25: a layer whose interval contains the trim range is on every frame of
\* the output: every frame the streaming exporter has put on its canvas shows
\* it, and in the chain transcode() builds for the same list and trim its
\* stage composites it at every export time from 0 to the export duration.
C25_CoveringLayerOnEveryFrame ==
    \A i \in 1..Len(overlays) :
        Covers(overlays[i]) =>
            /\ (pc = "waiting" /\ lastTick >= 0)
                  => \E d \in 1..Len(lastDrawn) : lastDrawn[d] = i
            /\ ExportDuration > 0 =>
                  LET g == SynthGraph(overlays, startTime, Duration)
                  IN \A tau \in 0..g.t :
                        \E k \in 1..Len(g.stages) :
                            g.stages[k].layer = i /\ StageShows(g.stages[k], tau)

\* ---------------------------------------------------------------------------
\* Further claims about the timeline layout
\* ---------------------------------------------------------------------------

\* Layer i of the list ends no later than every other layer starts.
EndsBeforeOthers(layers, i) ==
    \A j \in 1..Len(layers) :
        j # i => layers[i].timing.end <= layers[j].timing.start

\* C26: in every timeline the editor shows, a layer whose timing.end is <= the
\* timing.start of every other layer of the store is drawn in row 0.
C26_EarliestInRowZero ==
    TimelineShown =>
        \A i \in 1..Len(textLayers) :
            EndsBeforeOthers(textLayers, i)
                => RowIndex(GetLayerRows(textLayers), textLayers[i]) = 0

\* The number of frames an overlay stage puts out for a main input of n
\* frames: with shortest=1 it ends with the shorter of its inputs, the main
\* one and the still of loop + 1 frames; without it the engine goes on until
\* the looped still has ended as well.
StageFrames(stage, n) ==
    IF stage.shortest THEN Min(n, stage.loop + 1) ELSE Max(n, stage.loop + 1)

\* The frames of the stream the chain ends with, from stage k on.
RECURSIVE ChainFrames(_, _, _)
ChainFrames(stages, k, n) ==
    IF k > Len(stages) THEN n
    ELSE ChainFrames(stages, k + 1, StageFrames(stages[k], n))

\* C27: every overlay stage of the graph carries shortest=1 and overlays a
\* still looped a finite number of times, so the stream the chain ends with
\* has no more frames than the trimmed main video.
C27_ShortestEverywhere ==
    graph.started =>
        /\ \A k \in 1..Len(graph.stages) :
              /\ graph.stages[k].shortest
              /\ graph.stages[k].loop \in Nat
        /\ ChainFrames(graph.stages, 1, graph.t * Fps) <= graph.t * Fps

\* A trimmed export of two seconds with a chain of two stages.
C27_Witness ==
    /\ graph.started
    /\ graph.ss = 1 /\ graph.t = 2
    /\ Len(graph.stages) = 2
    /\ ChainFrames(graph.stages, 1, graph.t * Fps) = 2 * Fps


\* ------------------------------------------------------------------------
\* Coordinate reconciliation: where a raster layer lands in encode space.
\* A scale factor encode/display is kept as the pair of its terms; a
\* coordinate of one axis is an integer count of 1/(2 * display) pixels, so
\* that the quotients and the halves of the source are exact.
\* ------------------------------------------------------------------------

MaxPos == 2
MaxImage == 2
MaxLayerScale == 2
MaxDisplay == 2
MaxEncode == 3

Rotations == {0, 90}

Abs(a) == IF a >= 0 THEN a ELSE 0 - a

\* Math.round of n / d for n >= 0, d > 0.
MathRound(n, d) == (2 * n + d) \div (2 * d)

\* trunc(v / 2) * 2 for v = n / d >= 0.
TruncEven(n, d) == (n \div (2 * d)) * 2

\* drawOverlay, image branch: the image is drawn scaledSize wide with its
\* top-left at pos * scale, then the layer's own scale and rotation act
\* about the centre of that box.
ExporterAxis(pos, size, s, e, d) ==
    [at   |-> 2 * pos * e + size * e - s * size * e,
     size |-> 2 * s * size * e]

\* drawImageOverlay: the origin is moved to pos * scale and the image is
\* drawn centred on it, scaled by layer scale * scale factor.
RouterAxis(pos, size, s, e, d) ==
    [at   |-> 2 * pos * e - s * size * e,
     size |-> 2 * s * size * e]

\* transcode: scale=trunc(iw*f/2)*2 and overlay=x=Math.round(pos * scale),
\* both in whole pixels, anchored at the top-left.
GraphSize(size, s, e, d) == TruncEven(size * s * e, d)

GraphAxis(pos, size, s, e, d) ==
    [at   |-> 2 * d * MathRound(pos * e, d),
     size |-> 2 * d * GraphSize(size, s, e, d)]

DrawOverlayImage(a) ==
    [h |-> ExporterAxis(a.x, a.img[1], a.scale[1], a.encode[1], a.display[1]),
     v |-> ExporterAxis(a.y, a.img[2], a.scale[2], a.encode[2], a.display[2]),
     rotate |-> a.rotate]

DrawImageOverlay(a) ==
    [h |-> RouterAxis(a.x, a.img[1], a.scale[1], a.encode[1], a.display[1]),
     v |-> RouterAxis(a.y, a.img[2], a.scale[2], a.encode[2], a.display[2]),
     rotate |-> a.rotate]

\* The filter graph has a scale and an overlay filter per layer and no
\* rotation filter.
TranscodeOverlay(a) ==
    [h |-> GraphAxis(a.x, a.img[1], a.scale[1], a.encode[1], a.display[1]),
     v |-> GraphAxis(a.y, a.img[2], a.scale[2], a.encode[2], a.display[2]),
     rotate |-> 0]

PlaceInputs ==
    {[fn |-> "place", x |-> x, y |-> y, img |-> img, scale |-> sc, rotate |-> r,
      display |-> d, encode |-> e] :
        x \in 0..MaxPos, y \in 0..MaxPos,
        img \in (1..MaxImage) \X (1..MaxImage),
        sc \in (1..MaxLayerScale) \X (1..MaxLayerScale),
        r \in Rotations,
        d \in (1..MaxDisplay) \X (1..MaxDisplay),
        e \in (1..MaxEncode) \X (1..MaxEncode)}

\* The preview of 400x225 exported at 1920x1080 with a 100x100 drawing at (50, 50).
ExampleInput ==
    [fn |-> "place", x |-> 50, y |-> 50, img |-> <<100, 100>>, scale |-> <<1, 1>>,
     rotate |-> 0, display |-> <<400, 225>>, encode |-> <<1920, 1080>>]

\* The same export with a drawing 99 pixels wide and high.
OddImageInput == [ExampleInput EXCEPT !.img = <<99, 99>>]

InitPlace ==
    /\ arg \in PlaceInputs \cup {ExampleInput, OddImageInput}
    /\ out = NoCall
    /\ startTime = 0
    /\ endTime = 0
    /\ ExporterIdle
    /\ EditorIdle

CallPlace ==
    /\ out = NoCall
    /\ out' = [fn |-> "place",
               exporter |-> DrawOverlayImage(arg),
               router   |-> DrawImageOverlay(arg),
               graph    |-> TranscodeOverlay(arg)]
    /\ UNCHANGED <<arg, exporterVars, trimVars, editorVars>>

NextPlace == CallPlace

SpecPlace == InitPlace /\ [][NextPlace]_vars

\* The top-left corner pos * encode / display of one axis, in 1/(2 * display) pixels.
TopLeft(pos, e) == 2 * pos * e

\* A placement puts the corner within half a pixel of (x * scaleX, y * scaleY).
AtTopLeft(p, a) ==
    /\ Abs(p.h.at - TopLeft(a.x, a.encode[1])) <= a.display[1]
    /\ Abs(p.v.at - TopLeft(a.y, a.encode[2])) <= a.display[2]

\* C28: a raster layer with scale [1,1] and rotation 0 at preview position
\* (x, y) is composited with its top-left corner at (x * scaleX, y * scaleY)
\* of encode space, to the pixel, by the streaming exporter, by the canvas
\* compositor and by the filter graph, for every position and dimensions.
C28_TopLeftScaled ==
    (out.fn = "place" /\ arg.scale = <<1, 1>> /\ arg.rotate = 0)
        => /\ AtTopLeft(out.exporter, arg)
           /\ AtTopLeft(out.graph, arg)
           /\ AtTopLeft(out.router, arg)


\* C29: for the same raster layer, display and encode dimensions, the filter
\* graph, the streaming exporter and the canvas compositor place the layer
\* at the same top-left position, with the same width and height and the
\* same rotation.
C29_SamePlacement ==
    out.fn = "place"
        => /\ out.graph = out.exporter
           /\ out.router = out.exporter


\* source dimension x layer scale x encode / display of one axis, in
\* 1/(2 * display) pixels.
ExactSize(size, s, e) == 2 * size * s * e

\* A size of the graph is an even number of pixels, at least 2, and the even
\* integer nearest to the exact product.
NearestEvenAtLeastTwo(axis, exact, d) ==
    /\ axis.size % (4 * d) = 0
    /\ axis.size >= 4 * d
    /\ Abs(axis.size - exact) <= 2 * d

\* C30: in every layer sub-graph the scaled target width and height are even
\* integers, at least 2, equal to source dimension x layer scale x
\* display-to-encode factor rounded to the nearest even integer.
C30_EvenTargetSize ==
    out.fn = "place"
        => /\ NearestEvenAtLeastTwo(out.graph.h,
                  ExactSize(arg.img[1], arg.scale[1], arg.encode[1]), arg.display[1])
           /\ NearestEvenAtLeastTwo(out.graph.v,
                  ExactSize(arg.img[2], arg.scale[2], arg.encode[2]), arg.display[2])


\* ---------------------------------------------------------------------------
\* Exports called with a trim range that is not start < end <= duration
\* ---------------------------------------------------------------------------

\* The trim range is not start < end <= source duration.
BadTrimRange == startTime >= endTime \/ endTime > VideoDur

\* A loaded editor and an exporter constructed on the same three-second video
\* with any trim range, well-formed or not.  (The two-thumb slider and the
\* state before the metadata is loaded give start = end; the exporter's
\* constructor takes whatever its caller passes.)
InitTrim ==
    /\ textLayers \in {s \in SnapshotStores : Len(s) <= 1}
    /\ selectedTextId = NoId
    /\ videoFile = 1
    /\ videoDuration = FileDuration(1)
    /\ currentTime = 0
    /\ clock = 1
    /\ loaded = TRUE
    /\ isLoading = FALSE
    /\ graph = NoGraph
    /\ job = NoJob
    /\ draggingId = NoId
    /\ resizingId = NoId
    /\ resizeEdge = "none"
    /\ startTime \in 0..VideoDur
    /\ endTime \in 1..(VideoDur + 1)
    /\ overlays \in {o \in StreamOverlaySets : Len(o) <= 1}
    /\ cached = [i \in 1..Len(overlays) |-> FALSE]
    /\ RecorderIdle
    /\ FnIdle

NextTrim == NextStream \/ NextExport

SpecTrim == InitTrim /\ [][NextTrim]_vars

\* C31: an export invoked with a bad trim range fails before any engine work:
\* the recorder is never started, playback is never started and no frame is
\* drawn by the streaming exporter, and the graph-based backend never calls
\* the transcoding engine.
C31_BadTrimRejected ==
    BadTrimRange =>
        /\ recState = "none"
        /\ paused
        /\ frameCount = 0
        /\ ~graph.started
        /\ job.pc \notin {"exec", "readFile", "done"}


\* ---------------------------------------------------------------------------
\* Repeated and overlapping calls of transcode()
\* ---------------------------------------------------------------------------

MaxRuns == 2

\* The number that stands for the second call in flight.
OtherRun == MaxRuns + 1

\* transcode() is called again after the call before it has ended (Download is
\* clicked again); the engine's file system is as that call left it.
TranscodeAgain ==
    /\ videoFile # 0
    /\ loaded
    /\ job.pc \in {"done", "failed", "threw"}
    /\ job.run < MaxRuns
    /\ job' = [NoJob EXCEPT !.pc = "writeInput",
                            !.textLayers = textLayers,
                            !.startTime = startTime,
                            !.endTime = endTime,
                            !.atCall = textLayers,
                            !.outputFile = job.outputFile,
                            !.writer = job.writer,
                            !.other = job.other,
                            !.run = job.run + 1,
                            !.message = "Trimming..."]
    /\ UNCHANGED graph
    /\ JobLeaves

\* Download is clicked while a call is in flight (nothing disables it): a
\* second transcode() runs the same code on the same engine and the same
\* output.mp4.  The engine's worker serves the requests of both calls one at a
\* time, in the order they were posted.  The second call's deleteFile:
OtherDeleteFile ==
    /\ job.pc \notin {"none", "done", "failed", "threw"}
    /\ job.other = "none"
    /\ job' = [job EXCEPT !.other = "exec", !.outputFile = FALSE, !.writer = 0]
    /\ UNCHANGED graph
    /\ JobLeaves

\* ... and its exec, which writes output.mp4 or does not.
OtherExec ==
    /\ job.other = "exec"
    /\ \E written \in BOOLEAN :
          job' = [job EXCEPT !.other = "done",
                             !.outputFile = written \/ job.outputFile,
                             !.writer = IF written THEN OtherRun ELSE job.writer]
    /\ UNCHANGED graph
    /\ JobLeaves

NextRetry ==
    \/ TranscodeCall \/ InputWritten \/ LayerWritten \/ WriteRejects
    \/ DeleteFile \/ ExecResolves \/ ExecRejects \/ ReadFile
    \/ TranscodeAgain \/ OtherDeleteFile \/ OtherExec

SpecRetry == InitSnapshot /\ [][NextRetry]_vars

\* C32: the output file that a call of transcode() reads and downloads was
\* written by the exec of that call, never by another run's exec: whatever
\* an earlier run left is deleted before the call's exec.
C32_OutputIsOwn ==
    job.downloaded => job.readFrom = job.run


\* ---------------------------------------------------------------------------
\* The router called twice with the same options
\* ---------------------------------------------------------------------------

\* The options a caller passes: the layers and a capability flag of its own.
\* getExportMethod destructures textLayers and drawingLayers and nothing else.
RouterOptions ==
    {[textLayers |-> ts, drawingLayers |-> ds, supportsWebCodecs |-> c] :
        ts \in RouterTexts, ds \in RouterDrawings, c \in BOOLEAN}

\* getExportMethod(options) in the runtime w.
GetExportMethodOf(options, w) ==
    GetExportMethod(options.textLayers, options.drawingLayers, w)

InitRouterPair ==
    /\ arg \in {[fn |-> "getExportMethod", options |-> o, first |-> w1, second |-> w2] :
                   o \in RouterOptions, w1 \in Runtimes, w2 \in Runtimes}
    /\ out = NoCall
    /\ startTime = 0
    /\ endTime = 0
    /\ ExporterIdle
    /\ EditorIdle

\* The same options are routed in one runtime and then in the other.
CallGetExportMethodTwice ==
    /\ out = NoCall
    /\ out' = [fn |-> "getExportMethod",
               first  |-> GetExportMethodOf(arg.options, arg.first),
               second |-> GetExportMethodOf(arg.options, arg.second)]
    /\ UNCHANGED <<arg, exporterVars, trimVars, editorVars>>

NextRouterPair == CallGetExportMethodTwice

SpecRouterPair == InitRouterPair /\ [][NextRouterPair]_vars

\* C33: the router returns one of the three methods for every layer list, and
\* two calls with the same layers and the same capability flag passed by the
\* caller return the same method, whatever the runtime they are made in.
C33_RouterPure ==
    out.fn = "getExportMethod"
        => /\ out.first \in {"webcodecs", "ffmpeg", "unsupported"}
           /\ out.second \in {"webcodecs", "ffmpeg", "unsupported"}
           /\ out.first = out.second


\* ---------------------------------------------------------------------------
\* Store operations issued in one render
\* ---------------------------------------------------------------------------

MaxBatchStore == 2
MaxBatchOps == 2

BatchStores ==
    {[i \in 1..n |-> MkLayer(StringId(i), "text", 0, VideoDur)] : n \in 0..MaxBatchStore}

\* The handlers called in one render, in the order of the calls.
BatchOps ==
    {[kind |-> "addText", id |-> NoId], [kind |-> "saveDrawing", id |-> NoId]}
    \cup {[kind |-> k, id |-> StringId(i)] :
             k \in {"update", "remove"}, i \in 1..MaxBatchStore}

\* Date.now() at the k-th call, later than the ids in the store.
BatchNow(k) == MaxBatchStore + k

\* The state that the setTextLayers of the k-th call yields when React
\* processes the queue: handleAddText passes a value built from the
\* textLayers constant of the render, the others pass a function of the
\* state before.
SetTextLayers(rendered, prev, op, k) ==
    CASE op.kind = "addText" ->
            Append(rendered, MkLayer(StringId(BatchNow(k)), "text", 0, VideoDur))
      [] op.kind = "saveDrawing" ->
            Append(prev, MkLayer(NumberId(BatchNow(k)), "image", 0, VideoDur))
      [] op.kind = "update" ->
            UpdateText(prev, op.id, [timing |-> [start |-> 1, end |-> 2]])
      [] op.kind = "remove" -> RemoveText(prev, op.id)

\* The queue of one render processed from its k-th update on.
RECURSIVE ProcessQueue(_, _, _, _)
ProcessQueue(rendered, state, ops, k) ==
    IF k > Len(ops) THEN state
    ELSE ProcessQueue(rendered, SetTextLayers(rendered, state, ops[k], k), ops, k + 1)

InitBatch ==
    /\ arg \in {[fn |-> "render", layers |-> ls, ops |-> ops] :
                   ls \in BatchStores,
                   ops \in SeqsUpTo(BatchOps, MaxBatchOps) \ {<<>>}}
    /\ out = NoCall
    /\ startTime = 0
    /\ endTime = 0
    /\ ExporterIdle
    /\ EditorIdle

\* The handlers run and the component renders again with the new state.
CallHandlers ==
    /\ out = NoCall
    /\ out' = [fn |-> "render",
               val |-> ProcessQueue(arg.layers, arg.layers, arg.ops, 1)]
    /\ UNCHANGED <<arg, exporterVars, trimVars, editorVars>>

NextBatch == CallHandlers

SpecBatch == InitBatch /\ [][NextBatch]_vars

IdsOf(layers) == [i \in 1..Len(layers) |-> layers[i].id]

\* The ids in insertion order after the operations from the k-th on: an add
\* appends its id, an update keeps the sequence, a remove takes its id out.
RECURSIVE InsertionOrder(_, _, _)
InsertionOrder(ids, ops, k) ==
    IF k > Len(ops) THEN ids
    ELSE InsertionOrder(
            CASE ops[k].kind = "addText" -> Append(ids, StringId(BatchNow(k)))
              [] ops[k].kind = "saveDrawing" -> Append(ids, NumberId(BatchNow(k)))
              [] ops[k].kind = "update" -> ids
              [] ops[k].kind = "remove" -> SelectSeq(ids, LAMBDA x : x # ops[k].id),
            ops, k + 1)

\* C34: the store's sequence is insertion order: every add appends the new
\* layer at the end and keeps every existing layer, update and remove keep the
\* relative order of the other layers, also for operations issued before the
\* component renders again.
C34_StoreInsertionOrder ==
    out.fn = "render" => IdsOf(out.val) = InsertionOrder(IdsOf(arg.layers), arg.ops, 1)


\* ---------------------------------------------------------------------------
\* Removing a layer by id
\* ---------------------------------------------------------------------------

\* The ids a caller may pass to handleRemoveText: those Date.now() can have
\* given, in the store or not.
RemoveIds == {StringId(c) : c \in 0..MaxClock} \cup {NumberId(c) : c \in 0..MaxClock}

\* onRemove(id) of a layer's delete button, or of a caller holding an old id.
RemoveById == \E id \in RemoveIds : HandleRemoveText(id)

NextRemove == NextEditor \/ RemoveById

SpecRemove == InitEditor /\ [][NextRemove]_vars

\* layers without its i-th element.
WithoutAt(layers, i) ==
    [j \in 1..(Len(layers) - 1) |-> IF j < i THEN layers[j] ELSE layers[j + 1]]

\* C35: removing an id that no layer has changes neither the layer sequence
\* nor the selection; removing an existing id removes exactly that layer and
\* clears the selection only if that layer was the selected one.
C35_RemoveFrames ==
    [][\A id \in RemoveIds :
          HandleRemoveText(id) =>
              IF id \notin LayerIds
              THEN textLayers' = textLayers /\ selectedTextId' = selectedTextId
              ELSE /\ \E i \in 1..Len(textLayers) :
                         textLayers[i].id = id /\ textLayers' = WithoutAt(textLayers, i)
                   /\ selectedTextId' = IF selectedTextId = id THEN NoId
                                        ELSE selectedTextId]_vars


\* ---------------------------------------------------------------------------
\* The render tick, step by step
\* ---------------------------------------------------------------------------

\* A call of renderFrame: the first one after play(), or one by the display.
TickCalled == PlayResolved \/ RafTick

\* C36: on every render tick of an export that is not aborted, either
\* currentTime - trimRange.start >= exportDuration, and then the recorder is
\* stopped and no further tick is scheduled; or the frame is composited with the
\* layers active at currentTime and the next tick is scheduled, at once or
\* when the tick, suspended in the load of an image, goes on.
C36_TickStopsOrSchedules ==
    [][/\ (TickCalled /\ ~aborted) =>
            IF vtime - startTime >= ExportDuration
            THEN /\ recState' # "recording"
                 /\ ~rafPending' /\ tickWait' = 0
                 /\ lastTick' = lastTick /\ lastDrawn' = lastDrawn
            ELSE /\ lastTick' = vtime
                 /\ tickAct' = ActiveOverlays(vtime)
                 /\ UNCHANGED recState
                 /\ IF tickWait' = 0
                    THEN rafPending' /\ lastDrawn' = tickAct'
                    ELSE ~rafPending'
       /\ (tickWait # 0 /\ tickWait' = 0 /\ ~aborted) =>
            (rafPending' /\ lastDrawn' = tickAct)]_vars


\* ---------------------------------------------------------------------------
\* The timeline layout as a first-fit assignment
\* ---------------------------------------------------------------------------

\* Layer i is processed before layer j: it starts earlier, or at the same
\* time and stands earlier in the store.
ProcessedBefore(layers, i, j) ==
    \/ layers[i].timing.start < layers[j].timing.start
    \/ layers[i].timing.start = layers[j].timing.start /\ i < j

\* The row the layout gives to layer i of the layers it was applied to.
RowOf(layers, layout, i) == RowIndex(layout, layers[i])

\* The layers processed before layer i.
EarlierThan(layers, i) ==
    {j \in 1..Len(layers) : ProcessedBefore(layers, j, i)}

\* The last layer assigned to row r before layer i is processed.
LastAssigned(layers, layout, r, i) ==
    CHOOSE j \in EarlierThan(layers, i) :
        /\ RowOf(layers, layout, j) = r
        /\ \A q \in EarlierThan(layers, i) :
              (RowOf(layers, layout, q) = r /\ q # j) => ProcessedBefore(layers, q, j)

\* The rows that exist when layer i is processed.
RowsBefore(layers, layout, i) ==
    {RowOf(layers, layout, j) : j \in EarlierThan(layers, i)}

\* ... and those of them that layer i fits in.
FittingRows(layers, layout, i) ==
    {r \in RowsBefore(layers, layout, i) :
        layers[LastAssigned(layers, layout, r, i)].timing.end <= layers[i].timing.start}

\* The row first fit gives to layer i: the lowest row it fits in, or a new
\* last row.
FirstFitRow(layers, layout, i) ==
    LET fits == FittingRows(layers, layout, i)
    IN IF fits # {}
       THEN CHOOSE r \in fits : \A q \in fits : r <= q
       ELSE Cardinality(RowsBefore(layers, layout, i))

\* layout is the first-fit assignment of layers.
IsFirstFit(layers, layout) ==
    /\ \A i \in 1..Len(layers) :
          RowOf(layers, layout, i) = FirstFitRow(layers, layout, i)
    /\ layout.totalRows =
          Cardinality({RowOf(layers, layout, i) : i \in 1..Len(layers)})

\* C37: in every timeline the editor shows, the layout is the first-fit greedy
\* assignment of the store's layers: layers are processed by ascending
\* timing.start, ties in store order, and each layer's row is the lowest
\* existing row whose last-assigned layer ends no later than the layer starts,
\* or a new last row; totalRows counts the rows.
C37_FirstFit ==
    TimelineShown => IsFirstFit(textLayers, GetLayerRows(textLayers))


\* ---------------------------------------------------------------------------
\* The inputs of the engine and the indices the stages read
\* ---------------------------------------------------------------------------

\* C38: in the arguments handed to the engine, with the source video as input
\* 0, the j-th included layer's image is input j and the loop stage of that
\* layer reads [j:v], also when layers before it are skipped; every stage
\* reads an input that was added.
C38_InputIndexIsPosition ==
    graph.started =>
        LET incl == IncludedLayers(textLayers, graph.ss, graph.t)
        IN /\ Len(graph.inputs) = Len(incl)
           /\ Len(graph.stages) = Len(incl)
           /\ \A j \in 1..Len(incl) :
                 /\ graph.inputs[j] = incl[j]
                 /\ graph.stages[j].layer = incl[j]
                 /\ graph.stages[j].input = j
           /\ \A k \in 1..Len(graph.stages) :
                 graph.stages[k].input \in 1..Len(graph.inputs)

\* The first layer of the store is skipped and the stage of the second one
\* reads input 1.
C38_Witness ==
    /\ graph.started
    /\ Len(textLayers) = 2
    /\ ~Included(textLayers[1], graph.ss, graph.t)
    /\ Len(graph.stages) = 1
    /\ graph.stages[1].layer = 2
    /\ graph.stages[1].input = 1
    /\ graph.inputs = <<2>>


\* C39: once the recorder has stopped, by the end of the range, the watchdog
\* or abort, the tick loop is over: no further frame is composited, no further
\* progress is reported, a tick that is called schedules no other, and stop is
\* not requested on the recorder again.
C39_LoopEndsWithRecorder ==
    [][recState = "inactive" =>
          /\ lastTick' = lastTick /\ lastDrawn' = lastDrawn /\ tickAct' = tickAct
          /\ frameCount' = frameCount
          /\ TickCalled => ~rafPending'
          /\ tickWait # 0 => ~rafPending'
          /\ badStop' = badStop]_vars


\* ---------------------------------------------------------------------------
\* The loop count for an export duration that is not a whole number of seconds
\* ---------------------------------------------------------------------------

MaxDurNum == 30
MaxDurDen == 4

\* Math.ceil(a / b) for a >= 0, b > 0.
Ceil(a, b) == (a + b - 1) \div b

\* A loop count rounded down and without the buffer.
LoopCountFloor(num, den) == (num * Fps) \div den

\* const loopCount = Math.ceil(duration * fps) + 10, for duration = num / den
LoopCountOf(num, den) == Ceil(num * Fps, den) + LoopBuffer

InitLoop ==
    /\ arg \in {[fn |-> "loopCount", num |-> n, den |-> d] :
                   n \in 0..MaxDurNum, d \in 1..MaxDurDen}
    /\ out = NoCall
    /\ startTime = 0
    /\ endTime = 0
    /\ ExporterIdle
    /\ EditorIdle

\* transcode() computes the loop count of a layer's stage.
CallLoopCount ==
    /\ out = NoCall
    /\ out' = [fn |-> "loopCount", loop |-> LoopCountOf(arg.num, arg.den),
               fps |-> Fps, shortest |-> TRUE]
    /\ UNCHANGED <<arg, exporterVars, trimVars, editorVars>>

NextLoop == CallLoopCount

SpecLoop == InitLoop /\ [][NextLoop]_vars

\* The frames of the trimmed main video at the frame rate of the stills.
MainFrames(num, den) == Ceil(num * Fps, den)

\* C40: the looped still of a layer lasts at least as long as the export:
\* ceil(exportDuration x 30) + 10 frames at 30 fps cover exportDuration, for
\* every exportDuration >= 0, so an overlay stage that ends with its shorter
\* input puts out every frame of the trimmed main video.
C40_LoopCoversExport ==
    out.fn = "loopCount" =>
        /\ out.loop = MainFrames(arg.num, arg.den) + 10
        /\ out.loop * arg.den >= arg.num * out.fps
        /\ StageFrames(out, MainFrames(arg.num, arg.den)) = MainFrames(arg.num, arg.den)

\* An export of 7/4 s: 52.5 frames, rounded up to 53, and a still of 63.
C40_Witness ==
    /\ out.fn = "loopCount"
    /\ arg.num = 7 /\ arg.den = 4
    /\ out.loop = 63
    /\ StageFrames(out, 53) = 53

====
